---- MODULE Spec2Model ----
(***************************************************************************)
(* Spreadsheet-to-tracker reconciliation of the Project-Plan repository.   *)
(*                                                                         *)
(* Four sync variants share one shape (read rows, fetch the issue list     *)
(* once, then per row: derive labels, ensure them, create or update):      *)
(*   "actions"  src/scripts/sync-issues.js lines 1-236                     *)
(*   "dates"    src/scripts/sync-issues.js lines 240-971 (project dates)   *)
(*   "local"    src/sync-local.js                                          *)
(*   "gas"      src/unnamed/part_000 (Apps Script)                         *)
(*                                                                         *)
(* Text is a sequence of tokens (words, digits, punctuation), so that      *)
(* String.includes is contiguous-subsequence containment and a regular     *)
(* expression is a scan over adjacent tokens.                              *)
(***************************************************************************)
EXTENDS Integers, Sequences, FiniteSets, TLC

VARIABLES
    variant,        \* which script runs
    hostTz,         \* host / script time zone, hours east of GMT
    GITHUB_TOKEN,   \* whether the bearer token is set in the environment
    rows,           \* the source table, header row removed
    issues,         \* remote issues, issues[n] is issue number n
    labelDefs,      \* remote label definitions, a set of [name, color]
    fields,         \* names of the date fields of the remote board
    boardItems,     \* board entries: issue number -> [start, end]
    run,            \* number of batch runs started so far
    pc,             \* position of the running batch
    outcome,        \* "running", "exit0", "exit1" or "thrown"
    existingIssues, \* the snapshot fetched by getExistingIssues
    idx,            \* next row of the for loop of main
    created, updated, skipped,
    syncedIssues,   \* results collected by main of the dates variant
    didx,           \* next element of syncedIssues in the date loop
    projectItems,   \* board entries fetched by step 4 of main (dates variant)
    log,            \* remote requests of the current run, in order
    faults,         \* number of steps so far in which a request failed
    history,        \* remote state and tallies at the end of each past run
    derived,        \* title and labels computed for a single row
    net,            \* the request channel of a run followed request by request
    overlap,        \* two batch runs that share the tracker and overlap in time
    debounce,       \* the script cache and the triggers of the Apps Script
    app             \* the dashboard: displayed data, cache, stored config and fetches in flight

vars == <<variant, hostTz, GITHUB_TOKEN, rows, issues, labelDefs, fields, boardItems,
          run, pc, outcome, existingIssues, idx, created, updated, skipped,
          syncedIssues, didx, projectItems, log, faults, history, derived,
          net,
          overlap,
          debounce,
          app>>

remoteVars == <<issues, labelDefs, fields, boardItems>>

\* the state of the single-function and fine-grained specifications, which
\* a batch run leaves alone
sideVars == <<derived, net, overlap, debounce, app>>

----------------------------------------------------------------------------
(* Bounds *)

MaxRows == 2
MaxRuns == 2
MaxFaults == 1

----------------------------------------------------------------------------
(* Text helpers *)

Null == <<>>

\* String.prototype.includes on token sequences
Contains(s, sub) ==
    \E i \in 0..(Len(s) - Len(sub)) : SubSeq(s, i + 1, i + Len(sub)) = sub

\* text || default
OrElse(text, default) == IF text = Null THEN default ELSE text

Digits == {"0", "1", "2", "3", "4", "5", "6", "7", "8", "9"}
QuarterTokens == {"Q1", "Q2", "Q3", "Q4"}
YearTokens == {"2025", "2026", "2027", "2028"}

Min(S) == CHOOSE x \in S : \A y \in S : x <= y

\* index of the first token equal to t, 0 when there is none
IndexOf(s, t) ==
    LET hits == {i \in 1..Len(s) : s[i] = t}
    IN  IF hits = {} THEN 0 ELSE Min(hits)

\* a cut that keeps the whole text
BeforeColon_whole(s) == s

\* phase.split(':')[0]
BeforeColon(s) ==
    LET colon == IndexOf(s, ":")
    IN  IF colon = 0 THEN s ELSE SubSeq(s, 1, colon - 1)

----------------------------------------------------------------------------
(* Date cells.  A raw cell is empty or the text D-Mon-YYYY; a canonical    *)
(* date is the token triple <<yyyy, mm, dd>>, the empty sequence is "no    *)
(* date" (null or '').                                                     *)

MonthNames == <<"Jan", "Feb", "Mar", "Apr", "May", "Jun",
                "Jul", "Aug", "Sep", "Oct", "Nov", "Dec">>

Pad2(n) == IF n < 10 THEN "0" \o ToString(n) ELSE ToString(n)

\* the months table of parseDate: name -> two-digit number, "" when absent
months(mon) ==
    LET m == IndexOf(MonthNames, mon)
    IN  IF m = 0 THEN "" ELSE Pad2(m)

\* match[1].padStart(2, '0')
padStart2(d) == IF d \in Digits THEN "0" \o d ELSE d

EmptyCell == [kind |-> "empty", d |-> "", mon |-> "", y |-> ""]
DmyCell(d, mon, y) == [kind |-> "dmy", d |-> d, mon |-> mon, y |-> y]

\* parseDate of the three node scripts on the cells above: the regular
\* expression /(\d{1,2})-(\w{3})-(\d{4})/ matches every D-Mon-YYYY text
parseDate(value) ==
    IF value.kind = "empty" THEN Null
    ELSE LET month == months(value.mon)
         IN  <<value.y, IF month = "" THEN "01" ELSE month, padStart2(value.d)>>

\* the decimal and the two-digit spelling of the numbers dates use
Spelling == [n \in 0..31 |-> <<ToString(n), Pad2(n)>>]

\* the number a token of decimal digits denotes, for the small ranges dates use
IntOf(tok, S) ==
    CHOOSE n \in S : IF n \in DOMAIN Spelling
                     THEN Spelling[n][1] = tok \/ Spelling[n][2] = tok
                     ELSE ToString(n) = tok

\* the calendar years the model can name
Years == {IntOf(t, 2000..2100) : t \in YearTokens}

MonthIndex(mm) == CHOOSE n \in 1..12 : Spelling[n][2] = mm

IsLeap(y) == (y % 4 = 0 /\ y % 100 # 0) \/ y % 400 = 0

DaysIn(m, y) ==
    IF m = 2 THEN (IF IsLeap(y) THEN 28 + 1 ELSE 28)
    ELSE IF m \in {4, 6, 9, 11} THEN 30 ELSE 31

\* the calendar day before <<yyyy, mm, dd>>
PrevDay(date) ==
    LET d == IntOf(date[3], 1..31)
    IN  IF d > 1 THEN <<date[1], date[2], Pad2(d - 1)>>
        ELSE LET m == MonthIndex(date[2])
                 y == IntOf(date[1], Years)
             IN  IF m > 1 THEN <<date[1], Pad2(m - 1), Pad2(DaysIn(m - 1, y))>>
                 ELSE <<ToString(y - 1), "12", "31">>

\* formatDate of the Apps Script: new Date(text) is midnight in the script
\* zone (NaN for an unknown month name), Utilities.formatDate prints the
\* GMT calendar day of that instant
formatDate(value, tz) ==
    IF value.kind = "empty" THEN Null
    ELSE LET month == months(value.mon)
             local == <<value.y, month, padStart2(value.d)>>
         IN  IF month = "" THEN Null
             ELSE IF tz > 0 THEN PrevDay(local) ELSE local

\* formatDateDisplay of the dates variant: split('-') and reorder
formatDateDisplay(isoDate) ==
    IF isoDate = Null THEN <<"TBD">>
    ELSE <<isoDate[3], "-", MonthNames[MonthIndex(isoDate[2])], "-", isoDate[1]>>

\* formatDateDisplay of the Apps Script: new Date(isoDate) is midnight GMT,
\* getDate / getMonth / getFullYear read it in the script zone
formatDateDisplayGas(isoDate, tz) ==
    IF isoDate = Null THEN <<"TBD">>
    ELSE LET local == IF tz < 0 THEN PrevDay(isoDate) ELSE isoDate
         IN  <<ToString(IntOf(local[3], 1..31)), "-",
               MonthNames[MonthIndex(local[2])], "-", local[1]>>

----------------------------------------------------------------------------
(* Phase, title and labels *)

PhaseWords == {"Phase", "phase", "PHASE"}

\* /Phase\s*(\d)/i : position of the first match, 0 when there is none
PhaseMatchAt(text) ==
    LET hits == {i \in 1..(Len(text) - 1) :
                    text[i] \in PhaseWords /\ text[i + 1] \in Digits}
    IN  IF hits = {} THEN 0 ELSE Min(hits)

\* getPhase of the Apps Script
getPhase(phaseText) ==
    LET at == PhaseMatchAt(phaseText)
    IN  IF at = 0 THEN Null ELSE <<"Phase", phaseText[at + 1]>>

\* the activity keywords of getPhaseFromRow, one set per phase 1..5
ActivityKeywords ==
    << {<<"Phase", "1">>, <<"PT1", "Breakdown">>, <<"Evidence", "Gathering">>,
        <<"Documentation", "Analysis">>, <<"Third", "party">>},
       {<<"Phase", "2">>, <<"Automation">>, <<"Statement", "of", "Conformity">>,
        <<"Pilot", "Product">>},
       {<<"Phase", "3">>, <<"Internal", "Audit">>, <<"Process", "Mandate">>},
       {<<"Phase", "4">>, <<"Conformance", "Delivery">>,
        <<"Products", "not", "covered">>},
       {<<"Phase", "5">>, <<"Lifecycle">>, <<"PDS", "Solution">>} >>

\* getPhaseFromRow of the dates variant
getPhaseFromRow(row) ==
    LET at  == PhaseMatchAt(row.phase)
        hit == {n \in 1..5 :
                   \E kw \in ActivityKeywords[n] : Contains(row.activity, kw)}
    IN  IF at # 0 THEN <<"Phase", row.phase[at + 1]>>
        ELSE IF hit = {} THEN Null ELSE <<"Phase", ToString(Min(hit))>>

\* getPhaseDescription of the dates variant: /Phase\s*\d+:\s*(.+)/i
getPhaseDescription(row) ==
    LET hits == {i \in 1..(Len(row.phase) - 3) :
                    /\ row.phase[i] \in PhaseWords
                    /\ row.phase[i + 1] \in Digits
                    /\ row.phase[i + 2] = ":"}
    IN  IF hits = {} THEN Null
        ELSE SubSeq(row.phase, Min(hits) + 3, Len(row.phase))

\* the phase the variant puts in the title and in the body
PhaseOf(v, row) ==
    IF v = "dates" THEN getPhaseFromRow(row) ELSE getPhase(row.phase)

createIssueTitle(v, row) ==
    IF v \in {"dates", "gas"}
    THEN LET phase == PhaseOf(v, row)
         IN  IF phase # Null THEN <<"[">> \o phase \o <<"]">> \o row.activity
             ELSE row.activity
    ELSE LET phasePrefix == OrElse(BeforeColon(row.phase), <<"Task">>)
         IN  <<"[">> \o phasePrefix \o <<"]">> \o row.activity

\* a color table is a sequence of <<key, color>>; "" is the undefined of JS
Lookup(table, key) ==
    LET hits == {i \in 1..Len(table) : table[i][1] = key}
    IN  IF hits = {} THEN "" ELSE table[Min(hits)][2]

PHASE_COLORS(v) ==
    IF v \in {"actions", "local"}
    THEN << <<(<<"Phase", "1">>), "0052CC">>, <<(<<"Phase", "2">>), "5319E7">>,
            <<(<<"Phase", "3">>), "0E8A16">> >>
    ELSE << <<(<<"Phase", "1">>), "0052CC">>, <<(<<"Phase", "2">>), "5319E7">>,
            <<(<<"Phase", "3">>), "0E8A16">>, <<(<<"Phase", "4">>), "D93F0B">>,
            <<(<<"Phase", "5">>), "FF6B6B">> >>

QUARTER_COLORS(v) ==
    IF v \in {"actions", "local"}
    THEN << <<(<<"Q4", "2025">>), "FBCA04">>, <<(<<"Q1", "2026">>), "F9D0C4">>,
            <<(<<"Q2", "2026">>), "C5DEF5">>, <<(<<"Q3", "2026">>), "BFD4F2">>,
            <<(<<"Q4", "2026">>), "D4C5F9">> >>
    ELSE << <<(<<"Q1", "2025">>), "FBCA04">>, <<(<<"Q2", "2025">>), "F9D0C4">>,
            <<(<<"Q3", "2025">>), "C5DEF5">>, <<(<<"Q4", "2025">>), "BFD4F2">>,
            <<(<<"Q1", "2026">>), "D4C5F9">>, <<(<<"Q2", "2026">>), "FEF2C0">>,
            <<(<<"Q3", "2026">>), "BFDADC">>, <<(<<"Q4", "2026">>), "C2E0C6">>,
            <<(<<"Q1", "2027">>), "E6CCFF">>, <<(<<"Q2", "2027">>), "CCFFE6">>,
            <<(<<"Q3", "2027">>), "FFCCCC">>, <<(<<"Q4", "2027">>), "CCE6FF">> >>

STATUS_COLORS(v) ==
    IF v = "gas"
    THEN << <<(<<"Started">>), "0E8A16">>, <<(<<"Not", "Started">>), "E4E669">>,
            <<(<<"In", "Progress">>), "1D76DB">>, <<(<<"Completed">>), "98FF98">> >>
    ELSE << <<(<<"Started">>), "0E8A16">>, <<(<<"Not", "Started">>), "E4E669">>,
            <<(<<"In", "Progress">>), "1D76DB">>, <<(<<"Completed">>), "98FF98">>,
            <<(<<"Blocked">>), "D73A4A">> >>

\* /Q\d\s+\d{4}/ : the first match, Null when there is none
QuarterMatch(text) ==
    LET hits == {i \in 1..(Len(text) - 1) :
                    text[i] \in QuarterTokens /\ text[i + 1] \in YearTokens}
        at   == IF hits = {} THEN 0 ELSE Min(hits)
    IN  IF at = 0 THEN Null ELSE <<text[at], text[at + 1]>>

\* first key of the table that phase.includes, Null when there is none
PhaseKeyIn(table, phase) ==
    LET hits == {i \in 1..Len(table) : Contains(phase, table[i][1])}
    IN  IF hits = {} THEN Null ELSE table[Min(hits)][1]

Label(name, color) == [name |-> name, color |-> color]

\* the phase label a row gets, as a sequence of zero or one [name, color]
PhaseLabel(v, row) ==
    IF v \in {"actions", "local"}
    THEN LET key == PhaseKeyIn(PHASE_COLORS(v), row.phase)
         IN  IF key # Null THEN <<Label(key, Lookup(PHASE_COLORS(v), key))>> ELSE <<>>
    ELSE LET phase == IF v = "dates" THEN getPhaseFromRow(row) ELSE getPhase(row.phase)
             color == Lookup(PHASE_COLORS(v), phase)
         IN  IF v = "dates"
             THEN IF phase # Null /\ color # "" THEN <<Label(phase, color)>> ELSE <<>>
             ELSE IF phase # Null
                  THEN <<Label(phase, IF color # "" THEN color ELSE "666666")>>
                  ELSE <<>>

QuarterLabel(v, row) ==
    IF row.quarter = Null THEN <<>>
    ELSE IF v \in {"actions", "local"}
    THEN LET color == Lookup(QUARTER_COLORS(v), row.quarter)
         IN  IF color # "" THEN <<Label(row.quarter, color)>> ELSE <<>>
    ELSE LET quarterMatch == QuarterMatch(row.quarter)
             matchColor   == Lookup(QUARTER_COLORS(v), quarterMatch)
             rawColor     == Lookup(QUARTER_COLORS(v), row.quarter)
         IN  IF v = "dates"
             THEN IF quarterMatch # Null /\ matchColor # ""
                  THEN <<Label(quarterMatch, matchColor)>>
                  ELSE IF rawColor # ""
                  THEN <<Label(row.quarter, rawColor)>>
                  ELSE <<>>
             ELSE IF quarterMatch # Null
                  THEN <<Label(quarterMatch, "FBCA04")>>
                  ELSE <<>>

StatusLabel(v, row) ==
    IF row.status = Null \/ v \in {"actions", "local"} THEN <<>>
    ELSE LET color == Lookup(STATUS_COLORS(v), row.status)
         IN  IF v = "dates"
             THEN IF color # "" THEN <<Label(row.status, color)>> ELSE <<>>
             ELSE <<Label(row.status, IF color # "" THEN color ELSE "CCCCCC")>>

\* the labels of a row in the order syncRow ensures and pushes them
DeriveLabels(v, row) ==
    PhaseLabel(v, row) \o QuarterLabel(v, row) \o StatusLabel(v, row)

\* the label names of the issue write: the array `labels`
LabelNames(labs) == [i \in 1..Len(labs) |-> labs[i].name]

\* the start / end date the variant derives from a row
StartOf(v, row, tz) ==
    IF v = "gas" THEN formatDate(row.startDate, tz) ELSE parseDate(row.startDate)

EndOf(v, row, tz) ==
    IF v = "gas" THEN formatDate(row.endDate, tz) ELSE parseDate(row.endDate)

\* createIssueBody, one field per rendered cell or section, without the
\* footer line that carries the day of the sync
createIssueBody(v, row, tz) ==
    LET startDate == StartOf(v, row, tz)
        endDate   == EndOf(v, row, tz)
    IN  IF v \in {"dates", "gas"}
        THEN [ heading    |-> OrElse(row.activity, <<"Task">>),
               status     |-> OrElse(row.status, <<"Not", "Started">>),
               phase      |-> OrElse(PhaseOf(v, row), <<"N/A">>)
                              \o (IF v = "dates" /\ getPhaseDescription(row) # Null
                                  THEN <<"-">> \o getPhaseDescription(row) ELSE <<>>),
               owner      |-> OrElse(row.owner, <<"TBD">>),
               start      |-> IF v = "gas" THEN formatDateDisplayGas(startDate, tz)
                              ELSE formatDateDisplay(startDate),
               end        |-> IF v = "gas" THEN formatDateDisplayGas(endDate, tz)
                              ELSE formatDateDisplay(endDate),
               quarter    |-> OrElse(row.quarter, <<"TBD">>),
               taskDetail |-> row.taskDetail,
               principle  |-> row.principle,
               deliverable |-> row.deliverable ]
        ELSE [ heading    |-> <<>>,
               status     |-> <<>>,
               phase      |-> <<>>,
               owner      |-> row.owner,
               start      |-> IF startDate = Null /\ endDate = Null
                              THEN <<>> ELSE OrElse(startDate, <<"TBD">>),
               end        |-> IF startDate = Null /\ endDate = Null
                              THEN <<>> ELSE OrElse(endDate, <<"TBD">>),
               quarter    |-> IF v = "local" THEN row.quarter ELSE <<>>,
               taskDetail |-> row.taskDetail,
               principle  |-> row.principle,
               deliverable |-> row.deliverable ]

----------------------------------------------------------------------------
(* The remote tracker as the scripts use it.  A world is the record        *)
(* [issues, labelDefs, fields, boardItems, log]; every request appends     *)
(* one entry to log.                                                       *)

Req(r, req, name, number, labels, res, absent) ==
    [row |-> r, req |-> req, name |-> name, number |-> number,
     labels |-> labels, res |-> res, absent |-> absent]

Logged(w, entry) == [w EXCEPT !.log = Append(@, entry)]

\* a lookup that never finds the label
LabelExists_never(w, name) == FALSE

LabelExists(w, name) == \E l \in w.labelDefs : l.name = name

Range(s) == {s[i] : i \in 1..Len(s)}

NoDates == [start |-> Null, end |-> Null]

\* what the requests of one row may suffer; only the Apps Script makes
\* board requests while it processes a row
RowFaults(v) ==
    {"none", "lookupError", "labelCreate", "issueWrite"}
    \cup (IF v = "gas" THEN {"boardAdd", "boardQuery", "dateWrite"} ELSE {})

\* ensureLabel: GET the label by name, POST it on a miss.  The actions
\* variant creates after any failed lookup; the others after a 404 only and
\* swallow every other lookup failure.
ensureLabel(v, w, lab, fault, r) ==
    LET exists == LabelExists(w, lab.name)
        res  == IF fault = "lookupError" THEN "error"
                ELSE IF exists THEN "ok" ELSE "404"
        w1   == Logged(w, Req(r, "GET label", lab.name, 0, <<>>, res, {}))
        post == IF v = "actions" THEN res # "ok" ELSE res = "404"
        pres == IF fault = "labelCreate" \/ exists THEN "error" ELSE "ok"
        w2   == [Logged(w1, Req(r, "POST label", lab.name, 0, <<>>, pres, {}))
                    EXCEPT !.labelDefs = IF pres = "ok" THEN @ \cup {lab} ELSE @]
    IN  IF post THEN [w |-> w2, thrown |-> pres # "ok"]
        ELSE [w |-> w1, thrown |-> FALSE]

\* the ensureLabel calls of one row, in order, up to the first throw
RECURSIVE ensureLabels(_, _, _, _, _, _)
ensureLabels(v, w, labs, i, fault, r) ==
    IF i > Len(labs) THEN [w |-> w, thrown |-> FALSE]
    ELSE LET e == ensureLabel(v, w, labs[i], fault, r)
         IN  IF e.thrown THEN e ELSE ensureLabels(v, e.w, labs, i + 1, fault, r)

\* a find whose predicate accepts every item
Matches_any(v, issue, activity, title) == TRUE

\* the find predicate without the substring test
Matches_exactOnly(v, issue, activity, title) == issue.title = title

\* the predicate of existingIssues.find
Matches(v, issue, activity, title) ==
    IF v \in {"dates", "gas"}
    THEN Contains(issue.title, activity) \/ issue.title = title
    ELSE issue.title = title

\* a find that prefers an item whose title equals the constructed title
FindExisting_exactFirst(v, snapshot, activity, title) ==
    LET exact == {i \in 1..Len(snapshot) : snapshot[i].title = title}
        hits  == {i \in 1..Len(snapshot) : Matches(v, snapshot[i], activity, title)}
    IN  IF exact # {} THEN snapshot[Min(exact)].number
        ELSE IF hits = {} THEN 0 ELSE snapshot[Min(hits)].number

\* existingIssues.find(...): the number of the first match, 0 for undefined
FindExisting(v, snapshot, activity, title) ==
    LET hits == {i \in 1..Len(snapshot) : Matches(v, snapshot[i], activity, title)}
    IN  IF hits = {} THEN 0 ELSE snapshot[Min(hits)].number

\* a PATCH whose failure is not thrown
PatchIssue_swallow(w, number, body, labels, fault, r) ==
    LET res == IF fault = "issueWrite" THEN "error" ELSE "ok"
        w1  == Logged(w, Req(r, "PATCH issue", <<>>, number, labels, res,
                             {n \in Range(labels) : ~LabelExists(w, n)}))
    IN  [w |-> IF res = "ok"
               THEN [w1 EXCEPT !.issues[number].body = body,
                               !.issues[number].labels = Range(labels)]
               ELSE w1,
         thrown |-> FALSE, number |-> number]

\* a PATCH that adds the labels it carries to those of the issue
PatchIssue_additive(w, number, body, labels, fault, r) ==
    LET res == IF fault = "issueWrite" THEN "error" ELSE "ok"
        w1  == Logged(w, Req(r, "PATCH issue", <<>>, number, labels, res,
                             {n \in Range(labels) : ~LabelExists(w, n)}))
    IN  [w |-> IF res = "ok"
               THEN [w1 EXCEPT !.issues[number].body = body,
                               !.issues[number].labels = @ \cup Range(labels)]
               ELSE w1,
         thrown |-> res # "ok", number |-> number]

\* a PATCH that also sends a title
PatchIssue_retitle(w, number, body, labels, fault, r) ==
    LET res == IF fault = "issueWrite" THEN "error" ELSE "ok"
        w1  == Logged(w, Req(r, "PATCH issue", <<>>, number, labels, res,
                             {n \in Range(labels) : ~LabelExists(w, n)}))
    IN  [w |-> IF res = "ok"
               THEN [w1 EXCEPT !.issues[number].body = body,
                               !.issues[number].labels = Range(labels),
                               !.issues[number].title = <<"[", "Task", "]">> \o body.heading]
               ELSE w1,
         thrown |-> res # "ok", number |-> number]

\* a PATCH that also closes the issue
PatchIssue_close(w, number, body, labels, fault, r) ==
    LET res == IF fault = "issueWrite" THEN "error" ELSE "ok"
        w1  == Logged(w, Req(r, "PATCH issue", <<>>, number, labels, res,
                             {n \in Range(labels) : ~LabelExists(w, n)}))
    IN  [w |-> IF res = "ok"
               THEN [w1 EXCEPT !.issues[number].body = body,
                               !.issues[number].labels = Range(labels),
                               !.issues[number].state = "closed"]
               ELSE w1,
         thrown |-> res # "ok", number |-> number]

\* PATCH /issues/<number> with {body, labels}: body and labels are replaced
PatchIssue(w, number, body, labels, fault, r) ==
    LET res == IF fault = "issueWrite" THEN "error" ELSE "ok"
        w1  == Logged(w, Req(r, "PATCH issue", <<>>, number, labels, res,
                             {n \in Range(labels) : ~LabelExists(w, n)}))
    IN  [w |-> IF res = "ok"
               THEN [w1 EXCEPT !.issues[number].body = body,
                               !.issues[number].labels = Range(labels)]
               ELSE w1,
         thrown |-> res # "ok", number |-> number]

\* a POST whose failure is not thrown
PostIssue_swallow(w, title, body, labels, fault, r) ==
    LET res == IF fault = "issueWrite" THEN "error" ELSE "ok"
        n   == Len(w.issues) + 1
        w1  == Logged(w, Req(r, "POST issue", title, IF res = "ok" THEN n ELSE 0,
                             labels, res,
                             {l \in Range(labels) : ~LabelExists(w, l)}))
    IN  [w |-> IF res = "ok"
               THEN [w1 EXCEPT !.issues = Append(@,
                        [number |-> n, title |-> title, body |-> body,
                         labels |-> Range(labels), state |-> "open"])]
               ELSE w1,
         thrown |-> FALSE, number |-> n]

\* POST /issues with {title, body, labels}; the tracker numbers the issue
PostIssue(w, title, body, labels, fault, r) ==
    LET res == IF fault = "issueWrite" THEN "error" ELSE "ok"
        n   == Len(w.issues) + 1
        w1  == Logged(w, Req(r, "POST issue", title, IF res = "ok" THEN n ELSE 0,
                             labels, res,
                             {l \in Range(labels) : ~LabelExists(w, l)}))
    IN  [w |-> IF res = "ok"
               THEN [w1 EXCEPT !.issues = Append(@,
                        [number |-> n, title |-> title, body |-> body,
                         labels |-> Range(labels), state |-> "open"])]
               ELSE w1,
         thrown |-> res # "ok", number |-> n]

\* an attach that adds nothing to the board
Attach_nothing(w, number) == w

\* addProjectV2ItemById: attaching an attached issue changes nothing
Attach(w, number) ==
    IF number \in DOMAIN w.boardItems THEN w
    ELSE [w EXCEPT !.boardItems = (number :> NoDates) @@ @]

Gql(w, r, req, number, res) == Logged(w, Req(r, req, <<>>, number, <<>>, res, {}))

\* addIssueToProject of the Apps Script: three GraphQL calls inside try/catch
addIssueToProject(w, number, fault, r) ==
    IF fault = "boardAdd"
    THEN Gql(w, r, "GQL issueId", number, "error")
    ELSE Attach(Gql(Gql(Gql(w, r, "GQL issueId", number, "ok"),
                        r, "GQL projectId", 0, "ok"),
                    r, "GQL addItem", number, "ok"), number)

\* updateProjectV2ItemFieldValue for one date field
SetDate(w, r, number, field, value) ==
    LET w1 == Logged(w, Req(r, "GQL setDate", <<field>>, number, <<>>, "ok", {}))
    IN  IF field = "Start Date"
        THEN [w1 EXCEPT !.boardItems[number].start = value]
        ELSE [w1 EXCEPT !.boardItems[number].end = value]

\* updateProjectDates of the Apps Script: one query, then up to two
\* mutations, all inside try/catch
updateProjectDates(w, number, startDate, endDate, fault, r) ==
    IF fault = "boardQuery" THEN Gql(w, r, "GQL projectInfo", 0, "error")
    ELSE LET w1 == Gql(w, r, "GQL projectInfo", 0, "ok")
             doStart == startDate # Null /\ "Start Date" \in w.fields
             doEnd   == endDate # Null /\ "End Date" \in w.fields
         IN  IF number \notin DOMAIN w.boardItems THEN w1
             ELSE IF fault = "dateWrite"
             THEN IF doStart \/ doEnd
                  THEN Logged(w1, Req(r, "GQL setDate",
                                      <<IF doStart THEN "Start Date" ELSE "End Date">>,
                                      number, <<>>, "error", {}))
                  ELSE w1
             ELSE LET w2 == IF doStart
                            THEN SetDate(w1, r, number, "Start Date", startDate)
                            ELSE w1
                  IN  IF doEnd THEN SetDate(w2, r, number, "End Date", endDate)
                      ELSE w2

\* a syncRow that looks the row up in the tracker as it is now
syncRow_live(v, w, snapshot, row, tz, fault, r) ==
    LET title    == createIssueTitle(v, row)
        body     == createIssueBody(v, row, tz)
        labs     == DeriveLabels(v, row)
        labels   == LabelNames(labs)
        e        == ensureLabels(v, w, labs, 1, fault, r)
        existing == FindExisting(v, [i \in 1..Len(w.issues) |->
                                            [number |-> w.issues[i].number,
                                             title |-> w.issues[i].title]],
                                     row.activity, title)
        wr       == IF existing # 0
                    THEN PatchIssue(e.w, existing, body, labels, fault, r)
                    ELSE PostIssue(e.w, title, body, labels, fault, r)
        action   == IF existing # 0 THEN "updated" ELSE "created"
        startDate == StartOf(v, row, tz)
        endDate  == EndOf(v, row, tz)
        w3       == IF v = "gas" /\ existing = 0
                    THEN addIssueToProject(wr.w, wr.number, fault, r)
                    ELSE wr.w
        w4       == IF v = "gas" /\ (startDate # Null \/ endDate # Null)
                    THEN updateProjectDates(w3, wr.number, startDate, endDate, fault, r)
                    ELSE w3
    IN  IF e.thrown THEN [w |-> e.w, thrown |-> TRUE, action |-> "none", number |-> 0]
        ELSE IF wr.thrown
        THEN [w |-> wr.w, thrown |-> TRUE, action |-> "none", number |-> 0]
        ELSE [w |-> w4, thrown |-> FALSE, action |-> action, number |-> wr.number]

\* syncRow: build title, body and labels, ensure the labels, find the
\* existing issue in the snapshot, PATCH it or POST a new one; the Apps
\* Script then attaches a created issue to the board and sets its dates
syncRow(v, w, snapshot, row, tz, fault, r) ==
    LET title    == createIssueTitle(v, row)
        body     == createIssueBody(v, row, tz)
        labs     == DeriveLabels(v, row)
        labels   == LabelNames(labs)
        e        == ensureLabels(v, w, labs, 1, fault, r)
        existing == FindExisting(v, snapshot, row.activity, title)
        wr       == IF existing # 0
                    THEN PatchIssue(e.w, existing, body, labels, fault, r)
                    ELSE PostIssue(e.w, title, body, labels, fault, r)
        action   == IF existing # 0 THEN "updated" ELSE "created"
        startDate == StartOf(v, row, tz)
        endDate  == EndOf(v, row, tz)
        w3       == IF v = "gas" /\ existing = 0
                    THEN addIssueToProject(wr.w, wr.number, fault, r)
                    ELSE wr.w
        w4       == IF v = "gas" /\ (startDate # Null \/ endDate # Null)
                    THEN updateProjectDates(w3, wr.number, startDate, endDate, fault, r)
                    ELSE w3
    IN  IF e.thrown THEN [w |-> e.w, thrown |-> TRUE, action |-> "none", number |-> 0]
        ELSE IF wr.thrown
        THEN [w |-> wr.w, thrown |-> TRUE, action |-> "none", number |-> 0]
        ELSE [w |-> w4, thrown |-> FALSE, action |-> action, number |-> wr.number]

\* a row loop that skips nothing
HasActivity_always(row) == TRUE

\* the skip test of the row loop
HasActivity(row) == row.activity # Null

----------------------------------------------------------------------------
(* Inputs: the rows a table is drawn from and the initial remote states *)

Row(phase, activity, quarter, status, startDate, endDate) ==
    [phase |-> phase, activity |-> activity, taskDetail |-> <<"Plan">>,
     principle |-> <<>>, deliverable |-> <<"Report">>, owner |-> <<"Ana">>,
     quarter |-> quarter, status |-> status,
     startDate |-> startDate, endDate |-> endDate]

RowPool ==
    { Row(<<"Phase", "1", ":", "Setup">>, <<"Kickoff">>, <<"Q4", "2025">>,
          <<"Started">>, DmyCell("1", "Oct", "2025"), EmptyCell),
      Row(<<"Phase", "1", ":", "Setup">>, <<"Kickoff", "Meeting">>, <<>>,
          <<"Completed">>, EmptyCell, DmyCell("15", "Nov", "2025")),
      Row(<<"Phase", "2">>, <<>>, <<"Q1", "2026">>,
          <<"Started">>, DmyCell("1", "Oct", "2025"), EmptyCell) }

Tables == UNION {[1..n -> RowPool] : n \in 0..MaxRows}

\* a zone west of GMT, GMT, and a zone east of GMT
HostZones == {0 - 5, 0, 5}

OldBody ==
    [heading |-> <<"Kickoff", "Meeting">>, status |-> <<"Not", "Started">>,
     phase |-> <<"Phase", "1">>, owner |-> <<"TBD">>, start |-> <<"TBD">>,
     end |-> <<"TBD">>, quarter |-> <<"TBD">>, taskDetail |-> <<>>,
     principle |-> <<>>, deliverable |-> <<>>]

\* an empty repository with a fresh board, and a repository that already
\* holds "[Phase 1] Kickoff Meeting" on a board with both date fields
InitialRemotes ==
    { [issues |-> <<>>, labelDefs |-> {}, fields |-> {},
       boardItems |-> <<>>],
      [issues |-> << [number |-> 1,
                      title |-> <<"[", "Phase", "1", "]", "Kickoff", "Meeting">>,
                      body |-> OldBody,
                      labels |-> {<<"Phase", "1">>, <<"Not", "Started">>},
                      state |-> "open"] >>,
       labelDefs |-> {Label(<<"Phase", "1">>, "0052CC"),
                      Label(<<"Not", "Started">>, "E4E669")},
       fields |-> {"Start Date", "End Date"},
       boardItems |-> <<[start |-> Null, end |-> <<"2025", "12", "31">>]>>] }

----------------------------------------------------------------------------
(* The batch driver *)

World == [issues |-> issues, labelDefs |-> labelDefs, fields |-> fields,
          boardItems |-> boardItems, log |-> log]

SetWorld(w) ==
    /\ issues' = w.issues
    /\ labelDefs' = w.labelDefs
    /\ fields' = w.fields
    /\ boardItems' = w.boardItems
    /\ log' = w.log

Clean(l) == \A i \in 1..Len(l) : l[i].res # "error"

\* a step may make requests fail while fewer than MaxFaults steps have
MayFail(fault) == fault # "none" => faults < MaxFaults

Counted(newLog, from) ==
    faults' = IF Clean(SubSeq(newLog, from + 1, Len(newLog))) THEN faults ELSE faults + 1

\* the run ends: process.exit / return / throw; the state it leaves is
\* recorded for comparison with later runs
EndRun(o, w, snap, c, u, s) ==
    /\ outcome' = o
    /\ pc' = IF o \in {"exit0", "returned"} THEN "done" ELSE "failed"
    /\ history' = Append(history,
                         [issues |-> w.issues, labelDefs |-> w.labelDefs,
                          fields |-> w.fields, boardItems |-> w.boardItems,
                          snapshot |-> snap,
                          created |-> c, updated |-> u, skipped |-> s,
                          outcome |-> o, clean |-> Clean(w.log)])

FailOutcome(v) == IF v = "gas" THEN "thrown" ELSE "exit1"
DoneOutcome(v) == IF v = "gas" THEN "returned" ELSE "exit0"

Reverse(s) == [i \in 1..Len(s) |-> s[Len(s) + 1 - i]]

\* a fetch that loses every page
getExistingIssues_empty(iss) == <<>>

\* getExistingIssues: the pages of GET /issues?state=all concatenated; the
\* request names no sort order, and the tracker then lists newest first
getExistingIssues(iss) ==
    Reverse([i \in 1..Len(iss) |-> [number |-> iss[i].number, title |-> iss[i].title]])

\* no request outstanding, none queued, the thread of main ready to run
NetIdle == [at |-> "ready", inflight |-> 0, todo |-> <<>>, after |-> <<>>]

\* no overlapping runs
NoOverlap == [at |-> <<>>, snap |-> <<>>, made |-> <<>>]

\* no trigger has fired, the cache is empty
NoDebounce == [now |-> 0, lastSync |-> [value |-> 0 - 1, expires |-> 0],
               pendingSync |-> [value |-> 0 - 1, expires |-> 0],
               owed |-> FALSE, last |-> "none"]

\* the dashboard is not mounted
NoApp == [mounted |-> FALSE, flights |-> {}, n |-> 0]

\* nothing computed yet
NotDerived == [done |-> {}, title |-> <<>>, labels |-> <<>>]

Init ==
    /\ variant \in {"actions", "dates", "local", "gas"}
    /\ hostTz \in (IF variant = "gas" THEN HostZones ELSE {0})
    /\ GITHUB_TOKEN \in BOOLEAN
    /\ rows \in Tables
    /\ \E r \in InitialRemotes :
          /\ issues = r.issues
          /\ labelDefs = r.labelDefs
          /\ fields = r.fields
          /\ boardItems = r.boardItems
    /\ run = 0
    /\ pc = "idle"
    /\ outcome = "running"
    /\ existingIssues = <<>>
    /\ idx = 1
    /\ created = 0
    /\ updated = 0
    /\ skipped = 0
    /\ syncedIssues = <<>>
    /\ didx = 1
    /\ projectItems = {}
    /\ log = <<>>
    /\ faults = 0
    /\ history = <<>>
    /\ derived = NotDerived
    /\ app = NoApp
    /\ debounce = NoDebounce
    /\ overlap = NoOverlap
    /\ net = NetIdle

\* the requests of a run without GITHUB_TOKEN: main of the dates variant
\* and of the local script exits before its first request and getToken of
\* the Apps Script throws before the fetch; the Actions variant sends
\* "Authorization: token undefined" and the tracker answers 401
tokenMissing(v) ==
    IF v = "actions"
    THEN <<Req(0, "GET issues", <<>>, 1, <<>>, "error", {})>>
    ELSE <<>>

\* main / syncToGitHub from its start to the end of getExistingIssues
StartRun ==
    /\ pc \in {"idle", "done", "failed"}
    /\ run < MaxRuns
    /\ run' = run + 1
    /\ idx' = 1
    /\ created' = 0
    /\ updated' = 0
    /\ skipped' = 0
    /\ syncedIssues' = <<>>
    /\ didx' = 1
    /\ projectItems' = {}
    /\ UNCHANGED <<sideVars, variant, hostTz, GITHUB_TOKEN, rows, remoteVars>>
    /\ \E fault \in {"none", "listError"} :
          /\ MayFail(fault)
          /\ IF ~GITHUB_TOKEN
             THEN /\ fault = "none"
                  /\ log' = tokenMissing(variant)
                  /\ existingIssues' = <<>>
                  /\ UNCHANGED faults
                  /\ EndRun(FailOutcome(variant), [World EXCEPT !.log = log'], <<>>, 0, 0, 0)
             ELSE IF fault = "listError"
             THEN /\ log' = <<Req(0, "GET issues", <<>>, 1, <<>>, "error", {})>>
                  /\ existingIssues' = <<>>
                  /\ faults' = faults + 1
                  /\ EndRun(FailOutcome(variant), [World EXCEPT !.log = log'], <<>>, 0, 0, 0)
             ELSE /\ log' = IF issues = <<>>
                            THEN <<Req(0, "GET issues", <<>>, 1, <<>>, "ok", {})>>
                            ELSE <<Req(0, "GET issues", <<>>, 1, <<>>, "ok", {}),
                                   Req(0, "GET issues", <<>>, 2, <<>>, "ok", {})>>
                  /\ existingIssues' = getExistingIssues(issues)
                  /\ pc' = "loop"
                  /\ outcome' = "running"
                  /\ UNCHANGED <<faults, history>>

\* one iteration of the row loop whose row has no activity
SkipRow ==
    /\ pc = "loop"
    /\ idx <= Len(rows)
    /\ ~HasActivity(rows[idx])
    /\ idx' = idx + 1
    /\ skipped' = IF variant \in {"dates", "local"} THEN skipped + 1 ELSE skipped
    /\ UNCHANGED <<sideVars, variant, hostTz, GITHUB_TOKEN, rows, remoteVars, run, pc, outcome,
                   existingIssues, created, updated, syncedIssues, didx,
                   projectItems, log, faults, history>>

\* one iteration of the row loop whose row has an activity
ProcessRow ==
    /\ pc = "loop"
    /\ idx <= Len(rows)
    /\ HasActivity(rows[idx])
    /\ \E fault \in RowFaults(variant) :
          /\ MayFail(fault)
          /\ \E res \in {syncRow(variant, World, existingIssues, rows[idx], hostTz, fault, idx)} :
              /\ SetWorld(res.w)
              /\ Counted(res.w.log, Len(log))
              /\ IF res.thrown
                 THEN /\ EndRun(FailOutcome(variant), res.w, existingIssues, created, updated, skipped)
                      /\ UNCHANGED <<idx, created, updated, syncedIssues>>
                 ELSE /\ idx' = idx + 1
                      /\ created' = IF res.action = "created" THEN created + 1 ELSE created
                      /\ updated' = IF res.action = "updated" THEN updated + 1 ELSE updated
                      /\ syncedIssues' =
                            IF variant = "dates"
                            THEN Append(syncedIssues,
                                        [action |-> res.action, number |-> res.number,
                                         row |-> idx])
                            ELSE syncedIssues
                      /\ UNCHANGED <<pc, outcome, history>>
    /\ UNCHANGED <<sideVars, variant, hostTz, GITHUB_TOKEN, rows, run, existingIssues, skipped,
                   didx, projectItems>>

\* the end of main in the variants without a date phase
FinishLoop ==
    /\ pc = "loop"
    /\ idx > Len(rows)
    /\ variant # "dates"
    /\ EndRun(DoneOutcome(variant), World, existingIssues, created, updated, skipped)
    /\ UNCHANGED <<sideVars, variant, hostTz, GITHUB_TOKEN, rows, remoteVars, run, existingIssues,
                   idx, created, updated, skipped, syncedIssues, didx,
                   projectItems, log, faults>>

\* createDateField for each of the two fields that the board lacks
createDateFields(w, fault) ==
    LET missing == SelectSeq(<<"Start Date", "End Date">>, LAMBDA f : f \notin w.fields)
    IN  IF missing = <<>> THEN [w |-> w, thrown |-> FALSE]
        ELSE IF fault = "fieldCreate"
        THEN [w |-> Logged(w, Req(0, "GQL createField", <<missing[1]>>, 0, <<>>, "error", {})),
              thrown |-> TRUE]
        ELSE [w |-> [w EXCEPT
                       !.fields = @ \cup Range(missing),
                       !.log = @ \o [i \in 1..Len(missing) |->
                                       Req(0, "GQL createField", <<missing[i]>>, 0, <<>>, "ok", {})]],
              thrown |-> FALSE]

\* steps 3 and 4 of main (dates variant) up to the date loop: getProjectInfo,
\* createDateField for a missing field, getProjectItems
SetupProject ==
    /\ pc = "loop"
    /\ idx > Len(rows)
    /\ variant = "dates"
    /\ \E fault \in {"none", "boardQuery", "fieldCreate"} :
          /\ MayFail(fault)
          /\ IF fault = "boardQuery"
             THEN /\ SetWorld(Gql(World, 0, "GQL projectInfo", 0, "error"))
                  /\ faults' = faults + 1
                  /\ EndRun("exit1", Gql(World, 0, "GQL projectInfo", 0, "error"),
                            existingIssues, created, updated, skipped)
                  /\ UNCHANGED projectItems
             ELSE \E c \in {createDateFields(Gql(World, 0, "GQL projectInfo", 0, "ok"), fault)} :
                      IF c.thrown
                      THEN /\ SetWorld(c.w)
                           /\ faults' = faults + 1
                           /\ EndRun("exit1", c.w, existingIssues, created, updated, skipped)
                           /\ UNCHANGED projectItems
                      ELSE /\ SetWorld(Gql(c.w, 0, "GQL projectItems", 0, "ok"))
                           /\ projectItems' = DOMAIN boardItems
                           /\ pc' = "dates"
                           /\ UNCHANGED <<outcome, faults, history>>
    /\ UNCHANGED <<sideVars, variant, hostTz, GITHUB_TOKEN, rows, run, existingIssues, idx,
                   created, updated, skipped, syncedIssues, didx>>

\* a date loop that lets the failure of an attach end the run
updateDatesOf_throw(w, s, row, inProject, fault) ==
    LET startDate == parseDate(row.startDate)
        endDate   == parseDate(row.endDate)
        w1 == IF inProject THEN w
              ELSE Attach(Gql(Gql(w, s.row, "GQL issueId", s.number, "ok"),
                              s.row, "GQL addItem", s.number, "ok"), s.number)
        w2 == IF startDate # Null
              THEN SetDate(w1, s.row, s.number, "Start Date", startDate) ELSE w1
        w3 == IF endDate # Null
              THEN SetDate(w2, s.row, s.number, "End Date", endDate) ELSE w2
    IN  IF ~inProject /\ fault = "boardAdd"
        THEN [w |-> Gql(w, s.row, "GQL issueId", s.number, "error"), thrown |-> TRUE]
        ELSE IF fault = "dateWrite" /\ (startDate # Null \/ endDate # Null)
        THEN [w |-> Logged(w1, Req(s.row, "GQL setDate",
                                   <<IF startDate # Null THEN "Start Date" ELSE "End Date">>,
                                   s.number, <<>>, "error", {})),
              thrown |-> TRUE]
        ELSE [w |-> w3, thrown |-> FALSE]

\* the body of the date loop of main for one synced issue
updateDatesOf(w, s, row, inProject, fault) ==
    LET startDate == parseDate(row.startDate)
        endDate   == parseDate(row.endDate)
        w1 == IF inProject THEN w
              ELSE Attach(Gql(Gql(w, s.row, "GQL issueId", s.number, "ok"),
                              s.row, "GQL addItem", s.number, "ok"), s.number)
        w2 == IF startDate # Null
              THEN SetDate(w1, s.row, s.number, "Start Date", startDate) ELSE w1
        w3 == IF endDate # Null
              THEN SetDate(w2, s.row, s.number, "End Date", endDate) ELSE w2
    IN  IF ~inProject /\ fault = "boardAdd"
        THEN [w |-> Gql(w, s.row, "GQL issueId", s.number, "error"), thrown |-> FALSE]
        ELSE IF fault = "dateWrite" /\ (startDate # Null \/ endDate # Null)
        THEN [w |-> Logged(w1, Req(s.row, "GQL setDate",
                                   <<IF startDate # Null THEN "Start Date" ELSE "End Date">>,
                                   s.number, <<>>, "error", {})),
              thrown |-> TRUE]
        ELSE [w |-> w3, thrown |-> FALSE]

UpdateDates ==
    /\ pc = "dates"
    /\ didx <= Len(syncedIssues)
    /\ \E fault \in {"none", "boardAdd", "dateWrite"} :
          /\ MayFail(fault)
          /\ \E res \in {updateDatesOf(World, syncedIssues[didx],
                                      rows[syncedIssues[didx].row],
                                      syncedIssues[didx].number \in projectItems, fault)} :
              /\ SetWorld(res.w)
              /\ Counted(res.w.log, Len(log))
              /\ IF res.thrown
                 THEN /\ EndRun("exit1", res.w, existingIssues, created, updated, skipped)
                      /\ UNCHANGED didx
                 ELSE /\ didx' = didx + 1
                      /\ UNCHANGED <<pc, outcome, history>>
    /\ UNCHANGED <<sideVars, variant, hostTz, GITHUB_TOKEN, rows, run, existingIssues, idx,
                   created, updated, skipped, syncedIssues, projectItems>>

\* the end of main of the dates variant
FinishDates ==
    /\ pc = "dates"
    /\ didx > Len(syncedIssues)
    /\ EndRun("exit0", World, existingIssues, created, updated, skipped)
    /\ UNCHANGED <<sideVars, variant, hostTz, GITHUB_TOKEN, rows, remoteVars, run, existingIssues,
                   idx, created, updated, skipped, syncedIssues, didx,
                   projectItems, log, faults>>

Next ==
    \/ StartRun
    \/ SkipRow
    \/ ProcessRow
    \/ FinishLoop
    \/ SetupProject
    \/ UpdateDates
    \/ FinishDates

Spec == Init /\ [][Next]_vars

----------------------------------------------------------------------------
(* Title and labels as functions of one row: every variant applied to rows *)
(* whose phase, quarter and status cells take the shapes the code          *)
(* distinguishes                                                           *)

PhaseCells ==
    { <<"Phase", "1", ":", "Setup">>, <<"Phase", "2">>,
      <<"phase", "3", ":", "Build">>, <<"Phase", "7", ":", "Extra">>,
      <<"Planning">>, <<>> }

ActivityCells == { <<"Kickoff">>, <<"Internal", "Audit">> }

QuarterCells ==
    { <<"Q4", "2025">>, <<"Q3", "2028">>,
      <<"Q3", "2026", "-", "Q4", "2026">>, <<>> }

StatusCells == { <<"Started">>, <<"On", "Hold">>, <<>> }

DerivePool ==
    { Row(p, a, q, s, EmptyCell, EmptyCell) :
        p \in PhaseCells, a \in ActivityCells, q \in QuarterCells, s \in StatusCells }

DeriveInit ==
    /\ variant \in {"actions", "dates", "local", "gas"}
    /\ hostTz = 0
    /\ GITHUB_TOKEN = TRUE
    /\ rows \in {<<r>> : r \in DerivePool}
    /\ issues = <<>>
    /\ labelDefs = {}
    /\ fields = {}
    /\ boardItems = <<>>
    /\ run = 0
    /\ pc = "derive"
    /\ outcome = "running"
    /\ existingIssues = <<>>
    /\ idx = 1
    /\ created = 0
    /\ updated = 0
    /\ skipped = 0
    /\ syncedIssues = <<>>
    /\ didx = 1
    /\ projectItems = {}
    /\ log = <<>>
    /\ faults = 0
    /\ history = <<>>
    /\ derived = NotDerived
    /\ app = NoApp
    /\ debounce = NoDebounce
    /\ overlap = NoOverlap
    /\ net = NetIdle

deriveFrame ==
    UNCHANGED <<variant, hostTz, GITHUB_TOKEN, rows, remoteVars, run, pc,
                outcome, existingIssues, idx, created, updated, skipped,
                syncedIssues, didx, projectItems, log, faults, history,
                net,
                overlap,
                debounce,
                app>>

\* const title = createIssueTitle(row)
DeriveTitle ==
    /\ pc = "derive"
    /\ "title" \notin derived.done
    /\ derived' = [derived EXCEPT !.done = @ \cup {"title"},
                                  !.title = createIssueTitle(variant, rows[1])]
    /\ deriveFrame

\* the labels syncRow ensures and pushes for the row
DeriveLabelSet ==
    /\ pc = "derive"
    /\ "labels" \notin derived.done
    /\ derived' = [derived EXCEPT !.done = @ \cup {"labels"},
                                  !.labels = DeriveLabels(variant, rows[1])]
    /\ deriveFrame

DeriveNext ==
    \/ DeriveTitle
    \/ DeriveLabelSet

DeriveSpec == DeriveInit /\ [][DeriveNext]_vars

----------------------------------------------------------------------------
(* The date parsers as functions of one raw cell: parseDate of the three   *)
(* node scripts and of the dashboard, formatDate of the Apps Script, on     *)
(* every kind of value a cell can hold                                     *)

\* the text YYYY-MM-DD
IsoCell(y, mm, dd) == [kind |-> "iso", d |-> dd, mon |-> mm, y |-> y]
\* a text that is no date
TextCell(t) == [kind |-> "text", d |-> t, mon |-> "", y |-> ""]
\* a Date object whose instant is midnight GMT of the day
DateCell(y, mm, dd) == [kind |-> "date", d |-> dd, mon |-> mm, y |-> y]
\* a Date object whose time value is NaN
InvalidDateCell == [kind |-> "invalid", d |-> "", mon |-> "", y |-> ""]
\* the sheet serial number of the day
SerialCell(y, mm, dd) == [kind |-> "serial", d |-> dd, mon |-> mm, y |-> y]

Returned(value) == [outcome |-> "returned", value |-> value]
Thrown == [outcome |-> "thrown", value |-> Null]

\* the calendar day a zone tz hours east of GMT shows at midnight GMT of date
LocalDayOf(date, tz) == IF tz < 0 THEN PrevDay(date) ELSE date

\* the parser of program p applied to a raw cell on a host tz hours east of
\* GMT: parseDate of the Actions variant, the dates variant, sync-local.js
\* and the dashboard, formatDate of the Apps Script
parseCell(p, value, tz) ==
    LET day == <<value.y, value.mon, value.d>>
    IN  CASE value.kind = "empty" -> Returned(Null)
          [] value.kind = "dmy" ->
                Returned(IF p = "gas" THEN formatDate(value, tz) ELSE parseDate(value))
          [] value.kind = "iso" ->
                \* new Date(text) is midnight GMT; the dates variant reads
                \* getFullYear / getMonth / getDate, the others print the
                \* GMT day
                Returned(IF p = "dates" THEN LocalDayOf(day, tz) ELSE day)
          [] value.kind = "date" ->
                Returned(IF p = "dates" THEN LocalDayOf(day, tz) ELSE day)
          [] value.kind = "serial" ->
                \* only the dates variant and the dashboard convert a
                \* serial; elsewhere new Date(number) is a time in 1970
                Returned(IF p \in {"dates", "dashboard"} THEN day
                         ELSE <<"1970", "01", "01">>)
          [] value.kind = "invalid" ->
                \* toISOString throws a RangeError; the getters give NaN
                IF p = "dates" THEN Returned(<<"NaN", "NaN", "NaN">>) ELSE Thrown
          [] value.kind = "text" ->
                \* the last line of the dashboard's parseDate is `return str`
                Returned(IF p = "dashboard" THEN <<value.d>> ELSE Null)

DateCells ==
    { EmptyCell, DmyCell("1", "Oct", "2025"), DmyCell("15", "Nov", "2025"),
      DmyCell("1", "Xyz", "2025"),
      IsoCell("2025", "10", "01"), IsoCell("2026", "01", "01"),
      IsoCell("2026", "03", "01"),
      TextCell("TBD"),
      DateCell("2025", "10", "01"), DateCell("2026", "01", "01"),
      InvalidDateCell,
      SerialCell("2025", "10", "01") }

\* nothing parsed yet
NotParsed == [done |-> FALSE, outcome |-> "none", value |-> Null]

\* the Apps Script prints a Date with Utilities.formatDate, which is not
\* part of the source: it gets no invalid Date
DateInit ==
    /\ variant \in {"actions", "dates", "local", "gas", "dashboard"}
    /\ hostTz \in HostZones
    /\ GITHUB_TOKEN = TRUE
    /\ rows \in {<<Row(<<>>, <<"Kickoff">>, <<>>, <<>>, c, EmptyCell)>> : c \in DateCells}
    /\ variant = "gas" => rows[1].startDate.kind # "invalid"
    /\ issues = <<>>
    /\ labelDefs = {}
    /\ fields = {}
    /\ boardItems = <<>>
    /\ run = 0
    /\ pc = "parse"
    /\ outcome = "running"
    /\ existingIssues = <<>>
    /\ idx = 1
    /\ created = 0
    /\ updated = 0
    /\ skipped = 0
    /\ syncedIssues = <<>>
    /\ didx = 1
    /\ projectItems = {}
    /\ log = <<>>
    /\ faults = 0
    /\ history = <<>>
    /\ derived = NotParsed
    /\ app = NoApp
    /\ debounce = NoDebounce
    /\ overlap = NoOverlap
    /\ net = NetIdle

\* parseDate(getField(row, 'Start Date'))
ParseStartDate ==
    /\ pc = "parse"
    /\ ~derived.done
    /\ \E res \in {parseCell(variant, rows[1].startDate, hostTz)} :
          derived' = [done |-> TRUE, outcome |-> res.outcome, value |-> res.value]
    /\ deriveFrame

DateNext == ParseStartDate

DateSpec == DateInit /\ [][DateNext]_vars

----------------------------------------------------------------------------
(* One batch run followed request by request.  The thread of main is ready, *)
(* awaiting the response of a request, or sleeping in the delay between two *)
(* rows; the requests of a statement block are those the block's operator   *)
(* computes, sent one by one.                                               *)

\* the position of the thread after it has issued a request that it does
\* not await
afterSend_noAwait == "ready"

\* the position of the thread after `await githubRequest(...)`
afterSend == "awaiting"

SeqInit ==
    /\ variant \in {"actions", "dates", "local", "gas"}
    /\ hostTz = 0
    /\ GITHUB_TOKEN = TRUE
    /\ rows \in Tables
    /\ \E r \in InitialRemotes :
          /\ issues = r.issues
          /\ labelDefs = r.labelDefs
          /\ fields = r.fields
          /\ boardItems = r.boardItems
    /\ run = 1
    /\ pc = "start"
    /\ outcome = "running"
    /\ existingIssues = <<>>
    /\ idx = 1
    /\ created = 0
    /\ updated = 0
    /\ skipped = 0
    /\ syncedIssues = <<>>
    /\ didx = 1
    /\ projectItems = {}
    /\ log = <<>>
    /\ faults = 0
    /\ history = <<>>
    /\ derived = NotDerived
    /\ app = NoApp
    /\ debounce = NoDebounce
    /\ overlap = NoOverlap
    /\ net = NetIdle

\* the thread is between two statement blocks
BetweenBlocks == net.at = "ready" /\ net.todo = <<>> /\ net.after = <<>>

\* getExistingIssues is entered: its page requests are queued
SeqList ==
    /\ pc = "start"
    /\ BetweenBlocks
    /\ \E fault \in {"none", "listError"} :
          /\ MayFail(fault)
          /\ faults' = IF fault = "none" THEN faults ELSE faults + 1
          /\ net' = [net EXCEPT
                !.todo = IF fault = "listError"
                         THEN <<Req(0, "GET issues", <<>>, 1, <<>>, "error", {})>>
                         ELSE IF issues = <<>>
                         THEN <<Req(0, "GET issues", <<>>, 1, <<>>, "ok", {})>>
                         ELSE <<Req(0, "GET issues", <<>>, 1, <<>>, "ok", {}),
                                Req(0, "GET issues", <<>>, 2, <<>>, "ok", {})>>,
                !.after = <<[block |-> "list", w |-> World,
                             thrown |-> fault = "listError",
                             action |-> "none", number |-> 0]>>]
    /\ UNCHANGED <<derived, overlap, debounce, app, variant, hostTz, GITHUB_TOKEN, rows, remoteVars, run,
                   pc, outcome, existingIssues, idx, created, updated, skipped,
                   syncedIssues, didx, projectItems, log, history>>

\* syncRow is entered for a row with an activity: its requests are queued
SeqBeginRow ==
    /\ pc = "loop"
    /\ idx <= Len(rows)
    /\ HasActivity(rows[idx])
    /\ BetweenBlocks
    /\ \E fault \in RowFaults(variant) :
          /\ MayFail(fault)
          /\ faults' = IF fault = "none" THEN faults ELSE faults + 1
          /\ \E res \in {syncRow(variant, World, existingIssues, rows[idx], hostTz, fault, idx)} :
                net' = [net EXCEPT
                    !.todo = SubSeq(res.w.log, Len(log) + 1, Len(res.w.log)),
                    !.after = <<[block |-> "row", w |-> res.w, thrown |-> res.thrown,
                                 action |-> res.action, number |-> res.number]>>]
    /\ UNCHANGED <<derived, overlap, debounce, app, variant, hostTz, GITHUB_TOKEN, rows, remoteVars, run,
                   pc, outcome, existingIssues, idx, created, updated, skipped,
                   syncedIssues, didx, projectItems, log, history>>

\* the thread issues the next request of the block
SeqSend ==
    /\ net.at = "ready"
    /\ net.todo # <<>>
    /\ log' = Append(log, Head(net.todo))
    /\ net' = [net EXCEPT !.todo = Tail(@), !.inflight = @ + 1, !.at = afterSend]
    /\ UNCHANGED <<derived, overlap, debounce, app, variant, hostTz, GITHUB_TOKEN, rows, remoteVars, run,
                   pc, outcome, existingIssues, idx, created, updated, skipped,
                   syncedIssues, didx, projectItems, faults, history>>

\* the response or the failure of an outstanding request arrives and the
\* thread that awaits it resumes
SeqReceive ==
    /\ net.inflight > 0
    /\ net' = [net EXCEPT !.inflight = @ - 1, !.at = "ready"]
    /\ UNCHANGED <<derived, overlap, debounce, app, variant, hostTz, GITHUB_TOKEN, rows, remoteVars, run,
                   pc, outcome, existingIssues, idx, created, updated, skipped,
                   syncedIssues, didx, projectItems, log, faults, history>>

\* the block has issued all its requests: getExistingIssues returns the
\* snapshot, or syncRow returns and main starts the delay between rows; a
\* throw ends the run
SeqEndBlock ==
    /\ net.at = "ready"
    /\ net.todo = <<>>
    /\ net.after # <<>>
    /\ LET a == net.after[1]
       IN  /\ issues' = a.w.issues
           /\ labelDefs' = a.w.labelDefs
           /\ fields' = a.w.fields
           /\ boardItems' = a.w.boardItems
           /\ IF a.thrown
              THEN /\ pc' = "failed"
                   /\ outcome' = FailOutcome(variant)
                   /\ net' = [net EXCEPT !.after = <<>>]
                   /\ UNCHANGED <<existingIssues, idx, created, updated>>
              ELSE IF a.block = "list"
              THEN /\ pc' = "loop"
                   /\ existingIssues' = getExistingIssues(issues)
                   /\ net' = [net EXCEPT !.after = <<>>]
                   /\ UNCHANGED <<outcome, idx, created, updated>>
              ELSE /\ idx' = idx + 1
                   /\ created' = IF a.action = "created" THEN created + 1 ELSE created
                   /\ updated' = IF a.action = "updated" THEN updated + 1 ELSE updated
                   /\ net' = [net EXCEPT !.after = <<>>, !.at = "sleeping"]
                   /\ UNCHANGED <<pc, outcome, existingIssues>>
    /\ UNCHANGED <<derived, overlap, debounce, app, variant, hostTz, GITHUB_TOKEN, rows, run, skipped,
                   syncedIssues, didx, projectItems, log, faults, history>>

\* the timer of the delay between rows fires
SeqTimer ==
    /\ net.at = "sleeping"
    /\ net' = [net EXCEPT !.at = "ready"]
    /\ UNCHANGED <<derived, overlap, debounce, app, variant, hostTz, GITHUB_TOKEN, rows, remoteVars, run,
                   pc, outcome, existingIssues, idx, created, updated, skipped,
                   syncedIssues, didx, projectItems, log, faults, history>>

\* a row without an activity: `continue`, no request and no delay
SeqSkipRow ==
    /\ pc = "loop"
    /\ idx <= Len(rows)
    /\ ~HasActivity(rows[idx])
    /\ BetweenBlocks
    /\ idx' = idx + 1
    /\ skipped' = IF variant \in {"dates", "local"} THEN skipped + 1 ELSE skipped
    /\ UNCHANGED <<derived, overlap, debounce, app, net, variant, hostTz, GITHUB_TOKEN, rows, remoteVars,
                   run, pc, outcome, existingIssues, created, updated,
                   syncedIssues, didx, projectItems, log, faults, history>>

\* the row loop is over
SeqFinish ==
    /\ pc = "loop"
    /\ idx > Len(rows)
    /\ BetweenBlocks
    /\ pc' = "done"
    /\ outcome' = DoneOutcome(variant)
    /\ UNCHANGED <<derived, overlap, debounce, app, net, variant, hostTz, GITHUB_TOKEN, rows, remoteVars,
                   run, existingIssues, idx, created, updated, skipped,
                   syncedIssues, didx, projectItems, log, faults, history>>

SeqNext ==
    \/ SeqList
    \/ SeqBeginRow
    \/ SeqSend
    \/ SeqReceive
    \/ SeqEndBlock
    \/ SeqTimer
    \/ SeqSkipRow
    \/ SeqFinish

SeqSpec == SeqInit /\ [][SeqNext]_vars

----------------------------------------------------------------------------
(* Two batch runs that overlap in time: the on-edit trigger and the time
   trigger of the Apps Script, or a scheduled run and a run started by
   hand.  Neither the scripts nor the triggers take a lock, so each run
   fetches its own snapshot and walks the rows against the one tracker. *)

Runs == {1, 2}

OverlapInit ==
    /\ variant \in {"actions", "dates", "local", "gas"}
    /\ hostTz = 0
    /\ GITHUB_TOKEN = TRUE
    /\ rows \in Tables
    /\ \E r \in InitialRemotes :
          /\ issues = r.issues
          /\ labelDefs = r.labelDefs
          /\ fields = r.fields
          /\ boardItems = r.boardItems
    /\ run = 2
    /\ pc = "overlap"
    /\ outcome = "running"
    /\ existingIssues = <<>>
    /\ idx = 1
    /\ created = 0
    /\ updated = 0
    /\ skipped = 0
    /\ syncedIssues = <<>>
    /\ didx = 1
    /\ projectItems = {}
    /\ log = <<>>
    /\ faults = 0
    /\ history = <<>>
    /\ derived = NotDerived
    /\ net = NetIdle
    /\ debounce = NoDebounce
    /\ app = NoApp
    /\ overlap = [at |-> <<0, 0>>, snap |-> << <<>>, <<>> >>, made |-> << {}, {} >>]

overlapFrame ==
    UNCHANGED <<variant, hostTz, GITHUB_TOKEN, rows, run, pc, outcome,
                existingIssues, idx, created, updated, skipped, syncedIssues,
                didx, projectItems, faults, history, derived, net, debounce,
                app>>

\* run i: const existingIssues = await getExistingIssues()
OverlapList(i) ==
    /\ pc = "overlap"
    /\ overlap.at[i] = 0
    /\ overlap' = [overlap EXCEPT !.at[i] = 1, !.snap[i] = getExistingIssues(issues)]
    /\ log' = Append(log, Req(0, "GET issues", <<>>, 1, <<>>, "ok", {}))
    /\ UNCHANGED remoteVars
    /\ overlapFrame

\* run i: a row without an activity
OverlapSkipRow(i) ==
    /\ pc = "overlap"
    /\ overlap.at[i] \in 1..Len(rows)
    /\ ~HasActivity(rows[overlap.at[i]])
    /\ overlap' = [overlap EXCEPT !.at[i] = @ + 1]
    /\ UNCHANGED <<remoteVars, log>>
    /\ overlapFrame

\* run i: syncRow for its next row, against its own snapshot and the
\* tracker as the other run has left it
OverlapSyncRow(i) ==
    /\ pc = "overlap"
    /\ overlap.at[i] \in 1..Len(rows)
    /\ HasActivity(rows[overlap.at[i]])
    /\ \E res \in {syncRow(variant, World, overlap.snap[i], rows[overlap.at[i]],
                           hostTz, "none", overlap.at[i])} :
          /\ SetWorld(res.w)
          /\ overlap' = [overlap EXCEPT
                !.at[i] = @ + 1,
                !.made[i] = IF res.action = "created"
                            THEN @ \cup {overlap.at[i]} ELSE @]
    /\ overlapFrame

OverlapNext ==
    \E i \in Runs :
        \/ OverlapList(i)
        \/ OverlapSkipRow(i)
        \/ OverlapSyncRow(i)

OverlapSpec == OverlapInit /\ [][OverlapNext]_vars

----------------------------------------------------------------------------
(* The triggers of the Apps Script: onSheetEdit with its debounce on the
   script cache, and the time-based trigger that calls syncToGitHub.  Time
   is counted in steps of ten seconds. *)

MaxClock == 8

\* (now - parseInt(lastSync)) < 30000
DebounceWindow == 3
\* cache.put('pendingSync', 'true', 60)
PendingTtl == 6
\* cache.put('lastSync', now.toString(), 300)
LastSyncTtl == 30

NoEntry == [value |-> 0 - 1, expires |-> 0]

\* cache.get(key): null once the entry has expired
cacheGet(entry, now) == IF now < entry.expires THEN entry.value ELSE 0 - 1

\* SpreadsheetApp.getUi(), the first statement of syncToGitHub and outside
\* its try block: the user interface exists for a run started from the open
\* sheet, a run started by the clock has none and the call throws
getUi(context) == IF context = "sheet" THEN "ui" ELSE "thrown"

DebounceInit ==
    /\ variant = "gas"
    /\ hostTz = 0
    /\ GITHUB_TOKEN = TRUE
    /\ rows = <<>>
    /\ issues = <<>>
    /\ labelDefs = {}
    /\ fields = {}
    /\ boardItems = <<>>
    /\ run = 0
    /\ pc = "triggers"
    /\ outcome = "none"
    /\ existingIssues = <<>>
    /\ idx = 1
    /\ created = 0
    /\ updated = 0
    /\ skipped = 0
    /\ syncedIssues = <<>>
    /\ didx = 1
    /\ projectItems = {}
    /\ log = <<>>
    /\ faults = 0
    /\ history = <<>>
    /\ derived = NotDerived
    /\ net = NetIdle
    /\ overlap = NoOverlap
    /\ app = NoApp
    /\ debounce = [now |-> 0, lastSync |-> NoEntry, pendingSync |-> NoEntry,
                   owed |-> FALSE, last |-> "none"]

debounceFrame ==
    UNCHANGED <<variant, hostTz, GITHUB_TOKEN, rows, remoteVars, pc, outcome,
                existingIssues, idx, created, updated, skipped, syncedIssues,
                didx, projectItems, log, faults, history, derived, net,
                overlap, app>>

\* ten seconds pass
Tick ==
    /\ pc = "triggers"
    /\ debounce.now < MaxClock
    /\ debounce' = [debounce EXCEPT !.now = @ + 1]
    /\ UNCHANGED run
    /\ debounceFrame

\* onSheetEdit(e): within the window after the recorded last sync the edit
\* only puts 'pendingSync' into the cache; otherwise it records the time
\* and calls syncToGitHub, which starts a run
onSheetEdit ==
    /\ pc = "triggers"
    /\ LET now      == debounce.now
           lastSync == cacheGet(debounce.lastSync, now)
       IN  IF lastSync >= 0 /\ now - lastSync < DebounceWindow
           THEN /\ debounce' = [debounce EXCEPT
                      !.pendingSync = [value |-> 1, expires |-> now + PendingTtl],
                      !.owed = TRUE,
                      !.last = "suppressed"]
                /\ UNCHANGED run
           ELSE /\ debounce' = [debounce EXCEPT
                      !.lastSync = [value |-> now, expires |-> now + LastSyncTtl],
                      !.owed = getUi("sheet") = "thrown" /\ @,
                      !.last = "synced"]
                /\ run' = run + 1
    /\ debounceFrame

\* the time-based trigger calls syncToGitHub; nothing reads 'pendingSync'
TimeTrigger ==
    /\ pc = "triggers"
    /\ IF getUi("clock") = "thrown"
       THEN /\ debounce' = [debounce EXCEPT !.last = "noUi"]
            /\ UNCHANGED run
       ELSE /\ debounce' = [debounce EXCEPT !.owed = FALSE, !.last = "synced"]
            /\ run' = run + 1
    /\ debounceFrame

DebounceNext ==
    \/ Tick
    \/ onSheetEdit
    \/ TimeTrigger

DebounceSpec == DebounceInit /\ [][DebounceNext]_vars

\* the clock runs and the time-based trigger keeps firing; nothing obliges
\* anyone to edit the sheet again
DebounceLive == DebounceSpec /\ WF_vars(Tick) /\ WF_vars(TimeTrigger)

----------------------------------------------------------------------------
(* The dashboard: App keeps the project data it displays, localStorage keeps
   the configuration and the last data fetched, and every call of refresh
   starts a fetch whose result is applied when it arrives.  A sheet's data
   is written as the id of the sheet it was fetched from. *)

MaxRefresh == 3

DEFAULT_SHEET_ID == "D"
NoData == "none"

\* what the user can type into the sheet URL field
SheetUrls == {"A", "B", "not a sheet url"}

\* extractSheetId(sheetUrl): the id, or nothing for a text that holds none
extractSheetId(url) == IF url \in {"A", "B", DEFAULT_SHEET_ID} THEN url ELSE NoData

\* refresh(config) up to its await: setRefreshing(true), setError(null),
\* and fetchProjectData(config) is in flight
refresh(a, sheetId) ==
    [a EXCEPT !.refreshing = TRUE,
              !.error = FALSE,
              !.n = @ + 1,
              !.flights = @ \cup {[id |-> a.n + 1, sheet |-> sheetId]},
              !.latest = [sheet |-> sheetId, outcome |-> "pending"]]

AppInit ==
    /\ variant = "dashboard"
    /\ hostTz = 0
    /\ GITHUB_TOKEN = FALSE
    /\ rows = <<>>
    /\ issues = <<>>
    /\ labelDefs = {}
    /\ fields = {}
    /\ boardItems = <<>>
    /\ run = 0
    /\ pc = "app"
    /\ outcome = "none"
    /\ existingIssues = <<>>
    /\ idx = 1
    /\ created = 0
    /\ updated = 0
    /\ skipped = 0
    /\ syncedIssues = <<>>
    /\ didx = 1
    /\ projectItems = {}
    /\ log = <<>>
    /\ faults = 0
    /\ history = <<>>
    /\ derived = NotDerived
    /\ net = NetIdle
    /\ overlap = NoOverlap
    /\ debounce = NoDebounce
    /\ \E config \in {NoData, "A"}, cached \in {NoData, "A"} :
          app = [mounted |-> FALSE, data |-> NoData, loading |-> TRUE,
                 error |-> FALSE, showConfig |-> FALSE, sheetUrl |-> "",
                 refreshing |-> FALSE, config |-> config, cached |-> cached,
                 flights |-> {}, n |-> 0,
                 latest |-> [sheet |-> NoData, outcome |-> "none"]]

appFrame ==
    UNCHANGED <<variant, hostTz, GITHUB_TOKEN, rows, remoteVars, run, pc,
                outcome, existingIssues, idx, created, updated, skipped,
                syncedIssues, didx, projectItems, log, faults, history,
                derived, net, overlap, debounce>>

\* the effect that runs once after the first render
useEffect ==
    /\ pc = "app"
    /\ ~app.mounted
    /\ LET a1 == IF app.cached # NoData
                 THEN [app EXCEPT !.mounted = TRUE, !.data = app.cached,
                                  !.loading = FALSE]
                 ELSE [app EXCEPT !.mounted = TRUE]
       IN  app' = IF app.config # NoData
                  THEN refresh([a1 EXCEPT !.sheetUrl = app.config], app.config)
                  ELSE refresh([a1 EXCEPT !.config = DEFAULT_SHEET_ID,
                                         !.sheetUrl = DEFAULT_SHEET_ID],
                               DEFAULT_SHEET_ID)
    /\ appFrame

\* the page shows the dashboard and not only the spinner
Rendered == app.mounted /\ ~(app.loading /\ app.data = NoData)

\* the settings button
OpenConfig ==
    /\ pc = "app"
    /\ Rendered
    /\ ~app.showConfig
    /\ app' = [app EXCEPT !.showConfig = TRUE]
    /\ appFrame

\* onChange of the sheet URL field
TypeSheetUrl ==
    /\ pc = "app"
    /\ Rendered
    /\ app.showConfig
    /\ \E url \in SheetUrls :
          /\ url # app.sheetUrl
          /\ app' = [app EXCEPT !.sheetUrl = url]
    /\ appFrame

\* 'Save & Sync'
handleSaveConfig ==
    /\ pc = "app"
    /\ Rendered
    /\ app.showConfig
    /\ app.n < MaxRefresh
    /\ LET sheetId == extractSheetId(app.sheetUrl)
       IN  app' = IF sheetId = NoData
                  THEN [app EXCEPT !.error = TRUE]
                  ELSE refresh([app EXCEPT !.config = sheetId,
                                          !.showConfig = FALSE], sheetId)
    /\ appFrame

\* the refresh button, disabled while refreshing is set
handleRefresh ==
    /\ pc = "app"
    /\ Rendered
    /\ ~app.refreshing
    /\ app.n < MaxRefresh
    /\ app' = IF app.config # NoData THEN refresh(app, app.config) ELSE app
    /\ appFrame

\* refresh after its await: a fetch in flight returns, with the data of the
\* sheet it was started for or with a failure
FetchReturns ==
    /\ pc = "app"
    /\ \E f \in app.flights, success \in BOOLEAN :
          app' = [app EXCEPT
                    !.flights = @ \ {f},
                    !.data = IF success THEN f.sheet ELSE @,
                    !.cached = IF success THEN f.sheet ELSE @,
                    !.error = IF success THEN @ ELSE TRUE,
                    !.refreshing = FALSE,
                    !.loading = FALSE,
                    !.latest = IF f.id = app.n
                               THEN [@ EXCEPT !.outcome = IF success THEN "ok"
                                                          ELSE "failed"]
                               ELSE @]
    /\ appFrame

AppNext ==
    \/ useEffect
    \/ OpenConfig
    \/ TypeSheetUrl
    \/ handleSaveConfig
    \/ handleRefresh
    \/ FetchReturns

AppSpec == AppInit /\ [][AppNext]_vars

----------------------------------------------------------------------------
(* Properties *)

IsIssueWrite(e) == e.req \in {"PATCH issue", "POST issue"}

SyncVariant == variant \in {"dates", "gas"}

\* the match policy as the specification words it, for row r of the table
C1_SnapshotMatch(r) ==
    \E i \in 1..Len(existingIssues) :
        \/ existingIssues[i].title = createIssueTitle(variant, rows[r])
        \/ Contains(existingIssues[i].title, rows[r].activity)

\* C1: in the dates variant and the Apps Script a row is written with a
\* PATCH exactly when the snapshot holds an item whose title equals the
\* constructed title or contains the activity, and with a POST otherwise;
\* a row that has been processed has exactly one issue write
C1_UpdateIffMatch ==
    SyncVariant =>
        /\ \A k \in 1..Len(log) :
              /\ log[k].req = "PATCH issue" => C1_SnapshotMatch(log[k].row)
              /\ log[k].req = "POST issue" => ~C1_SnapshotMatch(log[k].row)
        /\ \A r \in 1..Len(rows) :
              (pc \in {"loop", "dates", "done"} /\ r < idx /\ rows[r].activity # <<>>)
                 => Cardinality({k \in 1..Len(log) :
                                    log[k].row = r /\ IsIssueWrite(log[k])}) = 1

\* the row "Kickoff" has updated the snapshot item "[Phase 1] Kickoff Meeting"
\* and created nothing
C1_Witness ==
    /\ SyncVariant
    /\ \E k \in 1..Len(log) :
          /\ log[k].req = "PATCH issue"
          /\ log[k].res = "ok"
          /\ rows[log[k].row].activity = <<"Kickoff">>
          /\ issues[log[k].number].title = <<"[", "Phase", "1", "]", "Kickoff", "Meeting">>
          /\ \A j \in 1..Len(log) : log[j].row = log[k].row => log[j].req # "POST issue"

\* C2: one batch run issues at most one create per constructed title
C2_OneCreatePerTitle ==
    \A j, k \in 1..Len(log) :
        (/\ j < k
         /\ log[j].req = "POST issue" /\ log[j].res = "ok"
         /\ log[k].req = "POST issue" /\ log[k].res = "ok")
            => log[j].name # log[k].name

\* a run that ended normally and in which no request failed
Succeeded(h) == h.outcome \in {"exit0", "returned"} /\ h.clean

SameItem(a, b) ==
    /\ a.title = b.title
    /\ a.labels = b.labels
    /\ a.body = b.body
    /\ a.state = b.state

\* C3: a successful run that follows a successful run of the same table
\* creates no item and leaves every item with the title, the labels, the
\* body and the Start Date / End Date values it had after the first run
C3_RerunIdempotent ==
    \A i \in 2..Len(history) :
        (Succeeded(history[i - 1]) /\ Succeeded(history[i])) =>
            /\ history[i].created = 0
            /\ Len(history[i].issues) = Len(history[i - 1].issues)
            /\ \A n \in 1..Len(history[i].issues) :
                  SameItem(history[i].issues[n], history[i - 1].issues[n])
            /\ history[i].boardItems = history[i - 1].boardItems

WithActivity == Cardinality({r \in 1..Len(rows) : rows[r].activity # <<>>})

\* C4: main of the dates variant and of the local script ends successfully
\* with created + updated + skipped = number of rows; against an empty
\* tracker the tallies are (n, 0, m) for n rows with and m rows without an
\* activity, and the run that follows such a run tallies (0, n, m)
C4_Tallies ==
    variant \in {"dates", "local"} =>
        \A i \in 1..Len(history) :
            history[i].outcome = "exit0" =>
                /\ history[i].created + history[i].updated + history[i].skipped
                      = Len(rows)
                /\ history[i].snapshot = <<>> =>
                      /\ history[i].created = WithActivity
                      /\ history[i].updated = 0
                      /\ history[i].skipped = Len(rows) - WithActivity
                /\ (/\ i > 1
                    /\ history[i - 1].outcome = "exit0"
                    /\ history[i - 1].snapshot = <<>>) =>
                      /\ history[i].created = 0
                      /\ history[i].updated = WithActivity
                      /\ history[i].skipped = Len(rows) - WithActivity

\* a first run on an empty tracker created one item and skipped one row, and
\* the second run updated that item and skipped the row again
C4_Witness ==
    /\ variant \in {"dates", "local"}
    /\ Len(history) = 2
    /\ history[1].outcome = "exit0" /\ history[1].snapshot = <<>>
    /\ history[1].created = 1 /\ history[1].updated = 0 /\ history[1].skipped = 1
    /\ history[2].outcome = "exit0"
    /\ history[2].created = 0 /\ history[2].updated = 1 /\ history[2].skipped = 1

C5_IsSkip ==
    /\ pc = "loop"
    /\ idx <= Len(rows)
    /\ rows[idx].activity = <<>>

\* C5: the loop iteration of a row without activity makes no remote request
\* and changes nothing remote, adds one to skipped where the variant counts
\* skips, leaves created and updated alone; and no request of a run, in the
\* row loop or in the date loop, is made for such a row
C5_SkipMakesNoRequest ==
    [][ /\ (C5_IsSkip /\ pc' = pc) =>
              /\ log' = log
              /\ UNCHANGED remoteVars
              /\ idx' = idx + 1
              /\ created' = created
              /\ updated' = updated
              /\ syncedIssues' = syncedIssues
              /\ variant \in {"dates", "local"} => skipped' = skipped + 1
        /\ \A k \in 1..Len(log') :
              log'[k].row # 0 => rows[log'[k].row].activity # <<>> ]_vars

\* a row without activity has been skipped and counted
C5_Witness ==
    /\ variant \in {"dates", "local"}
    /\ skipped = 1
    /\ idx = 2
    /\ rows[1].activity = <<>>
    /\ Len(log) = 1

FailedWrite(k) == IsIssueWrite(log[k]) /\ log[k].res = "error"

\* the issue write log[j] succeeded and no later write of the run went to
\* the same issue
LastWriteOf(j) ==
    /\ IsIssueWrite(log[j])
    /\ log[j].res = "ok"
    /\ \A k \in (j + 1)..Len(log) :
          (IsIssueWrite(log[k]) /\ log[k].res = "ok") => log[k].number # log[j].number

\* C6: in the node scripts a failed issue write for row k is the last request
\* of the run, the process exits with code 1, no request is made for a row
\* after k, and what the rows before k wrote is still in the tracker
C6_WriteFailureStops ==
    variant # "gas" =>
        \A k \in 1..Len(log) :
            FailedWrite(k) =>
                /\ k = Len(log)
                /\ pc = "failed"
                /\ outcome = "exit1"
                /\ \A j \in 1..Len(log) : log[j].row <= log[k].row
                /\ \A j \in 1..(k - 1) :
                      /\ (log[j].req = "POST issue" /\ log[j].res = "ok") =>
                            /\ log[j].number \in 1..Len(issues)
                            /\ issues[log[j].number].title = log[j].name
                      /\ LastWriteOf(j) =>
                            issues[log[j].number].labels = Range(log[j].labels)

\* row 1 created an item, the write of row 2 failed, the item is still there
C6_Witness ==
    /\ variant # "gas"
    /\ pc = "failed"
    /\ Len(log) > 1
    /\ FailedWrite(Len(log))
    /\ log[Len(log)].row = 2
    /\ \E j \in 1..Len(log) :
          /\ log[j].row = 1
          /\ log[j].req = "POST issue"
          /\ log[j].res = "ok"
          /\ issues[log[j].number].title = log[j].name

\* C7 as stated: after a failed issue write the rows that remain are still
\* processed, so a run that has ended made requests for every later row
\* that has an activity
C7_BatchContinues ==
    (pc \in {"done", "failed"}) =>
        \A k \in 1..Len(log) :
            FailedWrite(k) =>
                \A r \in (log[k].row + 1)..Len(rows) :
                    rows[r].activity # <<>> => \E j \in 1..Len(log) : log[j].row = r

\* C7: a failed issue write aborts its row and the batch, in every variant:
\* the run has failed at that row, the row is counted neither as created nor
\* as updated, and no later row makes a request
C7_WriteFailureAbortsBatch ==
    \A k \in 1..Len(log) :
        FailedWrite(k) =>
            /\ pc = "failed"
            /\ outcome \in {"exit1", "thrown"}
            /\ idx = log[k].row
            /\ created + updated =
                  Cardinality({r \in 1..(idx - 1) : rows[r].activity # <<>>})
            /\ \A r \in (idx + 1)..Len(rows) : \A j \in 1..Len(log) : log[j].row # r

\* the write of row 1 failed and row 2, which has an activity, was not processed
C7_Witness ==
    /\ pc = "failed"
    /\ Len(rows) = 2
    /\ rows[2].activity # <<>>
    /\ idx = 1
    /\ Len(log) > 0
    /\ FailedWrite(Len(log))
    /\ log[Len(log)].row = 1

\* C8: a label is created only right after a lookup of that name answered
\* 404, and a lookup that failed in any other way is the last request of
\* its row and fails the run
C8_LookupFailureIsFatal ==
    \A k \in 1..Len(log) :
        /\ log[k].req = "POST label" =>
              /\ k > 1
              /\ log[k - 1].req = "GET label"
              /\ log[k - 1].name = log[k].name
              /\ log[k - 1].res = "404"
        /\ (log[k].req = "GET label" /\ log[k].res = "error") =>
              /\ pc = "failed"
              /\ \A j \in (k + 1)..Len(log) : log[j].row # log[k].row

\* C9: every label named in an issue write was looked up earlier in the same
\* row, and exists in the tracker when the write is issued
C9_AttachedLabelsExist ==
    \A k \in 1..Len(log) :
        IsIssueWrite(log[k]) =>
            /\ \A i \in 1..Len(log[k].labels) :
                  \E j \in 1..(k - 1) :
                      /\ log[j].req = "GET label"
                      /\ log[j].row = log[k].row
                      /\ log[j].name = log[k].labels[i]
            /\ log[k].absent = {}

\* the position in log of the most recent issue write, 0 when there is none
LastIssueWrite ==
    IF \E k \in 1..Len(log) : IsIssueWrite(log[k])
    THEN CHOOSE k \in 1..Len(log) :
            /\ IsIssueWrite(log[k])
            /\ \A j \in (k + 1)..Len(log) : ~IsIssueWrite(log[j])
    ELSE 0

\* C10: once an update has succeeded, the labels of the updated item are
\* exactly the labels derived from the row that updated it, and its body is
\* the body built from that row
C10_UpdateReplaces ==
    LET k == LastIssueWrite
    IN  (k > 0 /\ log[k].req = "PATCH issue" /\ log[k].res = "ok") =>
            /\ issues[log[k].number].labels =
                  Range(LabelNames(DeriveLabels(variant, rows[log[k].row])))
            /\ issues[log[k].number].body =
                  createIssueBody(variant, rows[log[k].row], hostTz)

\* item 1 carried the status label "Not Started"; the update by the row
\* "Kickoff Meeting" with status "Completed" has removed it
C10_Witness ==
    /\ variant \in {"dates", "gas"}
    /\ \E k \in 1..Len(log) :
          /\ log[k].req = "PATCH issue"
          /\ log[k].res = "ok"
          /\ log[k].number = 1
          /\ rows[log[k].row].activity = <<"Kickoff", "Meeting">>
          /\ LastWriteOf(k)
    /\ history = <<>>
    /\ issues[1].labels = {<<"Phase", "1">>, <<"Completed">>}
    /\ issues[1].body # OldBody

\* C11: in the dates variant and the Apps Script every request made for the
\* board about an item created in this run comes after the successful create
\* that returned its number, and when a run has ended normally with no
\* failed request every item it created has been attached to the board by
\* an attach request of this run
C11_CreatedIsAttached ==
    SyncVariant =>
        \A k \in 1..Len(log) :
            (log[k].req = "POST issue" /\ log[k].res = "ok") =>
                /\ \A j \in 1..Len(log) :
                      (/\ log[j].req \in {"GQL issueId", "GQL addItem"}
                       /\ log[j].number = log[k].number) => j > k
                /\ (pc = "done" /\ Clean(log)) =>
                      /\ log[k].number \in DOMAIN boardItems
                      /\ \E j \in (k + 1)..Len(log) :
                            /\ log[j].req = "GQL addItem"
                            /\ log[j].res = "ok"
                            /\ log[j].number = log[k].number

\* a run of the dates variant has created two items in its row loop and
\* attached both in its date loop
C11_Witness ==
    /\ variant = "dates"
    /\ pc = "done"
    /\ Clean(log)
    /\ \E k1, k2, j1, j2 \in 1..Len(log) :
          /\ k1 < k2 /\ k2 < j1 /\ j1 < j2
          /\ log[k1].req = "POST issue" /\ log[k2].req = "POST issue"
          /\ log[j1].req = "GQL addItem" /\ log[j1].number = log[k1].number
          /\ log[j2].req = "GQL addItem" /\ log[j2].number = log[k2].number
          /\ {log[k1].number, log[k2].number} \subseteq DOMAIN boardItems

\* the number of items the tracker held when the current run listed it:
\* within a run the tracker gains exactly the items of the successful POSTs
IssuesAtStart ==
    Len(issues) - Cardinality({k \in 1..Len(log) :
                                  log[k].req = "POST issue" /\ log[k].res = "ok"})

\* C12: from the successful listing until the end of the run the snapshot is
\* the list of the items the tracker held at the start of the run, number
\* and title, items created since are not in it and no update targets one
\* of them; the listing is requested once, before every request of a row
C12_SnapshotFixed ==
    (log # <<>> /\ log[1].res = "ok") =>
        LET n0 == IssuesAtStart
        IN  /\ Len(existingIssues) = n0
            /\ \A i \in 1..Len(existingIssues) :
                  /\ existingIssues[i].number \in 1..n0
                  /\ existingIssues[i].title = issues[existingIssues[i].number].title
            /\ \A n \in 1..n0 :
                  \E i \in 1..Len(existingIssues) : existingIssues[i].number = n
            /\ \A k \in 1..Len(log) :
                  /\ log[k].req = "PATCH issue" => log[k].number \in 1..n0
                  /\ log[k].req = "GET issues" =>
                        /\ log[k].row = 0
                        /\ log[k].number = k
                        /\ \A j \in 1..(k - 1) : log[j].req = "GET issues"

\* against an empty tracker the row "Kickoff Meeting" has created item 1 and
\* the later row "Kickoff", whose activity the title of item 1 contains, has
\* been looked up in the empty snapshot and has created item 2
C12_Witness ==
    /\ variant = "gas"
    /\ existingIssues = <<>>
    /\ Len(issues) = 2
    /\ Contains(issues[1].title, <<"Kickoff", "Meeting">>)
    /\ \E k \in 1..Len(log) :
          /\ log[k].req = "POST issue"
          /\ log[k].res = "ok"
          /\ log[k].number = 2
          /\ rows[log[k].row].activity = <<"Kickoff">>

\* the row's date step has run to its end in the current run
DateStepDone(r) ==
    IF variant = "gas"
    THEN pc \in {"loop", "done"} /\ r < idx /\ HasActivity(rows[r])
    ELSE /\ variant = "dates"
         /\ pc \in {"dates", "done"}
         /\ \E s \in 1..(didx - 1) : syncedIssues[s].row = r

\* the number of requests by which row r has written the date field f
DateWrites(r, f) ==
    Cardinality({k \in 1..Len(log) :
                    /\ log[k].req = "GQL setDate"
                    /\ log[k].row = r
                    /\ log[k].name = <<f>>})

\* C13: when the date step of a row has run for an item that has a board
\* entry and no request of the run has failed, the row has written Start
\* Date exactly once if its start date is non-empty and not at all if it is
\* empty, and likewise End Date for its end date
C13_OneWritePerDate ==
    \A r \in 1..Len(rows) :
        \A k \in 1..Len(log) :
            (/\ DateStepDone(r)
             /\ Clean(log)
             /\ IsIssueWrite(log[k]) /\ log[k].row = r
             /\ log[k].number \in DOMAIN boardItems)
                =>
                /\ DateWrites(r, "Start Date") =
                      IF StartOf(variant, rows[r], hostTz) # Null THEN 1 ELSE 0
                /\ DateWrites(r, "End Date") =
                      IF EndOf(variant, rows[r], hostTz) # Null THEN 1 ELSE 0

\* C14: a step that reaches the setting of the dates of an item which the
\* board does not hold writes no date field, ends no run and moves on to
\* the next row: in the Apps Script the step of a row with a date whose
\* item is not on the board, in the dates variant the step of the date loop
\* whose item could not be attached
C14_NoEntryNoWrite ==
    [][ LET gasCase ==
                /\ variant = "gas"
                /\ pc = "loop" /\ idx <= Len(rows)
                /\ log' # log
                /\ \E k \in 1..Len(log') :
                      /\ k > Len(log)
                      /\ IsIssueWrite(log'[k]) /\ log'[k].res = "ok"
                      /\ log'[k].number \notin DOMAIN boardItems'
                /\ (StartOf(variant, rows[idx], hostTz) # Null
                      \/ EndOf(variant, rows[idx], hostTz) # Null)
            datesCase ==
                /\ variant = "dates"
                /\ pc = "dates" /\ didx <= Len(syncedIssues)
                /\ log' # log
                /\ syncedIssues[didx].number \notin DOMAIN boardItems'
        IN  (gasCase \/ datesCase) =>
                /\ \A k \in 1..Len(log') :
                      k > Len(log) => log'[k].req # "GQL setDate"
                /\ pc' = pc
                /\ outcome' = outcome
                /\ history' = history
                /\ IF variant = "gas" THEN idx' = idx + 1 ELSE didx' = didx + 1
      ]_vars

\* the dates variant has created an item for a row with a date, could not
\* attach it, has written no date for it and has ended the run normally
C14_Witness ==
    /\ variant = "dates"
    /\ pc = "done"
    /\ outcome = "exit0"
    /\ \E k, j \in 1..Len(log) :
          /\ log[k].req = "POST issue" /\ log[k].res = "ok"
          /\ log[k].number \notin DOMAIN boardItems
          /\ parseDate(rows[log[k].row].startDate) # Null
          /\ j > k
          /\ log[j].req = "GQL issueId" /\ log[j].res = "error"
          /\ log[j].number = log[k].number
          /\ \A i \in 1..Len(log) :
                log[i].req = "GQL setDate" => log[i].number # log[k].number

\* C15: in the dates variant and the Apps Script, once the date step has run
\* for a row that carries a date and no request of the run has failed, the
\* board has both fields "Start Date" and "End Date"; and a run creates no
\* field twice
C15_FieldsEnsured ==
    SyncVariant =>
        /\ (/\ Clean(log)
            /\ \E r \in 1..Len(rows) :
                  /\ DateStepDone(r)
                  /\ (StartOf(variant, rows[r], hostTz) # Null
                        \/ EndOf(variant, rows[r], hostTz) # Null))
              => {"Start Date", "End Date"} \subseteq fields
        /\ \A j, k \in 1..Len(log) :
              (/\ j < k
               /\ log[j].req = "GQL createField"
               /\ log[k].req = "GQL createField") => log[j].name # log[k].name

\* C16: a run started without the bearer token has made no request to the
\* tracker, has processed no row and has ended in failure
C16_NoTokenNoRequest ==
    (~GITHUB_TOKEN /\ run > 0) =>
        /\ log = <<>>
        /\ idx = 1
        /\ pc = "failed"
        /\ outcome \in {"exit1", "thrown"}

\* the phase cell reads "Phase <d>" or "Phase <d>: <description>"
PhaseCellOf(row, d) ==
    \/ row.phase = <<"Phase", d>>
    \/ Len(row.phase) > 3 /\ SubSeq(row.phase, 1, 3) = <<"Phase", d, ":">>

\* C17: for a row whose phase cell reads "Phase <d>" or "Phase <d>:
\* <description>", every variant builds the title "[Phase <d>] <activity>"
C17_PhaseTitle ==
    "title" \in derived.done =>
        \A d \in Digits :
            PhaseCellOf(rows[1], d) =>
                derived.title = <<"[", "Phase", d, "]">> \o rows[1].activity

\* sync-local.js has built "[Phase 1] Kickoff" from the phase cell
\* "Phase 1: Setup" by cutting it at the colon
C17_Witness ==
    /\ variant = "local"
    /\ pc = "derive"
    /\ rows[1].phase = <<"Phase", "1", ":", "Setup">>
    /\ rows[1].activity = <<"Kickoff">>
    /\ "title" \in derived.done
    /\ derived.title = <<"[", "Phase", "1", "]", "Kickoff">>

\* C18: for a row with no phase, the phase cell holding no "Phase <digit>"
\* and the activity holding no phase keyword, every variant builds the title
\* "[Task] <activity>"
C18_TaskPrefix ==
    ("title" \in derived.done /\ getPhaseFromRow(rows[1]) = Null) =>
        derived.title = <<"[", "Task", "]">> \o rows[1].activity

\* C19: in the dates variant and the Apps Script the labels of a row hold
\* the phase "Phase <d>" of its phase cell whatever the digit, the first
\* "Q<n> <year>" of its quarter cell whatever the quarter, and its status
\* whatever the status
C19_FallbackLabels ==
    (SyncVariant /\ "labels" \in derived.done) =>
        LET names == Range(LabelNames(derived.labels))
        IN  /\ getPhase(rows[1].phase) # Null => getPhase(rows[1].phase) \in names
            /\ QuarterMatch(rows[1].quarter) # Null =>
                  QuarterMatch(rows[1].quarter) \in names
            /\ rows[1].status # Null => rows[1].status \in names

\* the requests of the current run of kind req for the label name
LabelReqs(req, name) ==
    {k \in 1..Len(log) : log[k].req = req /\ log[k].name = name}

\* C20: while no request of the run has failed, each label name that the run
\* has looked up has at most one create request: exactly one, right after
\* the first lookup, when that lookup answered 404, and every later lookup
\* of the name finds the label; none when the first lookup found it
C20_EnsureLabelOnce ==
    Clean(log) =>
        \A g \in 1..Len(log) :
            (log[g].req = "GET label" /\ g = Min(LabelReqs("GET label", log[g].name)))
                => LET posts == LabelReqs("POST label", log[g].name)
                   IN  /\ log[g].res = "404" => posts = {g + 1}
                       /\ log[g].res = "ok" => posts = {}
                       /\ \A k \in LabelReqs("GET label", log[g].name) :
                             k > g => log[k].res = "ok"

\* on a tracker without labels two rows of one run have ensured "Phase 1":
\* the first call created it, the second found it
C20_Witness ==
    /\ Clean(log)
    /\ \E g1, g2 \in LabelReqs("GET label", <<"Phase", "1">>) :
          /\ g1 < g2
          /\ log[g1].row # log[g2].row
          /\ log[g1].res = "404"
          /\ log[g2].res = "ok"
          /\ LabelReqs("POST label", <<"Phase", "1">>) = {g1 + 1}
    /\ Label(<<"Phase", "1">>, "0052CC") \in labelDefs

CanonYears == {"1970", "2024", "2025", "2026", "2027", "2028"}

\* the token triple of a text YYYY-MM-DD
IsCanonical(v) ==
    /\ Len(v) = 3
    /\ v[1] \in CanonYears
    /\ \E m \in 1..12 : v[2] = Spelling[m][2]
    /\ \E d \in 1..31 : v[3] = Spelling[d][2]

\* C21: every parser returns, for every raw cell, without throwing, and what
\* it returns is a canonical YYYY-MM-DD date or the empty value
C21_ParserTotal ==
    derived.done =>
        /\ derived.outcome = "returned"
        /\ derived.value = Null \/ IsCanonical(derived.value)

\* C22: for a text cell already in the form YYYY-MM-DD every parser returns
\* that same date on every host zone
C22_CanonicalRoundTrip ==
    (derived.done /\ rows[1].startDate.kind = "iso") =>
        /\ derived.outcome = "returned"
        /\ derived.value = <<rows[1].startDate.y, rows[1].startDate.mon,
                             rows[1].startDate.d>>

\* C23: no step of any run removes an item from the tracker, renumbers one
\* or changes its open / closed state, and a run sends the tracker no
\* request other than reads, creates, updates of an issue and board calls
C23_ItemsOnlyGrow ==
    [][ /\ Len(issues') >= Len(issues)
        /\ \A n \in 1..Len(issues) :
              /\ issues'[n].number = issues[n].number
              /\ issues'[n].state = issues[n].state
        /\ \A k \in 1..Len(log') :
              log'[k].req \in {"GET issues", "GET label", "POST label",
                               "PATCH issue", "POST issue", "GQL issueId",
                               "GQL projectId", "GQL addItem", "GQL projectInfo",
                               "GQL projectItems", "GQL setDate", "GQL createField"}
      ]_vars

\* item 1 is matched by no row of the table; a run has ended normally, has
\* created another item, and item 1 is still there, open and as it was
C23_Witness ==
    /\ pc = "done"
    /\ Len(issues) >= 2
    /\ issues[1].state = "open"
    /\ issues[1].body = OldBody
    /\ \A r \in 1..Len(rows) :
          ~Matches(variant, issues[1], rows[r].activity,
                   createIssueTitle(variant, rows[r]))
    /\ \E k \in 1..Len(log) : log[k].req = "POST issue" /\ log[k].res = "ok"

C25_NoDoubleCreate ==
    Len(overlap.made) = 2 =>
        \A r \in 1..Len(rows) : ~(r \in overlap.made[1] /\ r \in overlap.made[2])

\* C26: an edit suppressed by the debounce is eventually followed by a sync
\* run that starts after it, without any further edit
C26_DelayedSync == debounce.owed ~> ~debounce.owed

DistinctActivities ==
    \A a, b \in 1..Len(rows) : a # b => rows[a].activity # rows[b].activity

\* an issue update or a date write that reached the tracker
IsItemWrite(e) == e.req \in {"PATCH issue", "GQL setDate"} /\ e.res = "ok"

\* two different rows have written the same thing of the same item
SharedWrite(j, k) ==
    /\ IsItemWrite(log[j])
    /\ log[j].req = log[k].req
    /\ log[j].res = log[k].res
    /\ log[j].number = log[k].number
    /\ log[j].row # log[k].row

\* the snapshot holds item n under a title that contains the activity of
\* row r or equals the title constructed for row r
SnapshotItemMatches(r, n) ==
    \E i \in 1..Len(existingIssues) :
        /\ existingIssues[i].number = n
        /\ \/ existingIssues[i].title = createIssueTitle(variant, rows[r])
           \/ Contains(existingIssues[i].title, rows[r].activity)

SnapshotMatchAt(i, r) ==
    \/ existingIssues[i].title = createIssueTitle(variant, rows[r])
    \/ Contains(existingIssues[i].title, rows[r].activity)

\* C28: in the dates variant and the Apps Script the item a row updates is
\* the first item in snapshot order that satisfies the match policy, whether
\* or not a later item carries exactly the constructed title
C28_FirstMatchWins ==
    SyncVariant =>
        \A k \in 1..Len(log) :
            log[k].req = "PATCH issue" =>
                \E i \in 1..Len(existingIssues) :
                    /\ existingIssues[i].number = log[k].number
                    /\ SnapshotMatchAt(i, log[k].row)
                    /\ \A h \in 1..(i - 1) : ~SnapshotMatchAt(h, log[k].row)

\* a row has updated an item whose title only contains its activity although
\* the snapshot holds, further down, an item with exactly its title
C28_Witness ==
    /\ SyncVariant
    /\ \E k \in 1..Len(log) :
          /\ log[k].req = "PATCH issue"
          /\ log[k].res = "ok"
          /\ \E i, h \in 1..Len(existingIssues) :
                /\ i < h
                /\ existingIssues[i].number = log[k].number
                /\ existingIssues[i].title # createIssueTitle(variant, rows[log[k].row])
                /\ existingIssues[h].title = createIssueTitle(variant, rows[log[k].row])

\* C29: no step changes the title or the open / closed state of an item
\* the tracker already holds; an update replaces body and labels only
C29_UpdateKeepsTitle ==
    [][ \A n \in 1..Len(issues) :
            /\ issues'[n].title = issues[n].title
            /\ issues'[n].state = issues[n].state
            /\ (issues'[n].body # issues[n].body \/ issues'[n].labels # issues[n].labels)
                  => \E k \in 1..Len(log') :
                        /\ log'[k].req = "PATCH issue"
                        /\ log'[k].res = "ok"
                        /\ log'[k].number = n
      ]_vars

\* in a second run item 1 has been updated by a row whose constructed title
\* is not the title of the item, as it was in the first run, and the item
\* still has the title it had, with a new body
C29_Witness ==
    /\ run = 2
    /\ Len(history) = 1
    /\ history[1].updated >= 1
    /\ issues # <<>>
    /\ issues[1].title = <<"[", "Phase", "1", "]", "Kickoff", "Meeting">>
    /\ issues[1].state = "open"
    /\ issues[1].body # OldBody
    /\ \E k \in 1..Len(log) :
          /\ log[k].req = "PATCH issue"
          /\ log[k].res = "ok"
          /\ log[k].number = 1
          /\ createIssueTitle(variant, rows[log[k].row]) # issues[1].title

\* C30: once every fetch in flight has returned and the refresh requested
\* last has succeeded, the data displayed and the data cached are the data
\* of the configuration that refresh was requested for
C30_LatestConfigWins ==
    (app.mounted /\ app.flights = {} /\ app.latest.outcome = "ok")
        => (app.data = app.latest.sheet /\ app.cached = app.latest.sheet)

====
